---------------------------- MODULE Spec2Model ----------------------------
(***************************************************************************)
(* A model of the KiCAD command interface (python/kicad_interface.py and   *)
(* python/commands/*.py): the request loop, the command router with the    *)
(* board reference it shares with its engines, and the placement,          *)
(* alignment and routing handlers.                                         *)
(*                                                                         *)
(* Numbers.  A JSON number is modelled by an integer v that stands for    *)
(* v / JsonDen millimetres or inches.  The code counts lengths in          *)
(* nanometres (1 mm = 1000000); TLC's integers are 32 bits wide and the    *)
(* squared distances of delete_trace do not fit at that resolution, so the *)
(* model counts in a coarser internal unit, UnitsPerMm to the millimetre.  *)
(* Floating-point rounding inside int(x * scale) and sqrt is not modelled. *)
(*                                                                         *)
(* Python values.  An absent (None) string parameter is "", which Python's *)
(* "not s" treats like None; an optional number or dict is <<>> when       *)
(* absent and <<v>> when given.                                            *)
(***************************************************************************)
EXTENDS Integers, Sequences, FiniteSets, TLC

VARIABLES
    pc,           \* main(): "loop" reading standard input, "exit1" after sys.exit(1)
    routerBoard,  \* KiCADInterface.board
    engineBoard,  \* the .board attribute of each of the six command engines
    frameBoard,   \* what pcbnew.GetBoard() returns: the board of the running editor, or None
    nMade,        \* how many BOARD objects create_project/open_project have constructed
    madeBoard,    \* the BOARD object the last create_project/open_project constructed
    boards,       \* the document of every BOARD object: footprints and tracks
    schFiles,     \* schematic files written to disk
    out,          \* what was written to standard output for the last input line
    last,         \* the last input line: its kind, its command and its parameters
    resp,         \* the response computed for the last input line
    pre,          \* the document of the board the last command worked on, before it ran
    data          \* what the last response carries besides success, or the file it reports

vars == <<pc, routerBoard, engineBoard, frameBoard, nMade, madeBoard, boards,
          schFiles, out, last, resp, pre, data>>

---------------------------------------------------------------------------
(* Bounds of the model *)

UnitsPerMm == 50
JsonDen == 2
MaxMade == 1
MaxSessionFootprints == 1
MaxFootprints == 2
MaxTracks == 2
MaxAlign == 3
MaxGrid == 2
MaxBom == 3
FloatBits == 11

---------------------------------------------------------------------------
(* Python and kernel primitives *)

NoBoard == 0
EditorBoard == 1

Engines == {"project", "board", "component", "routing", "design_rule", "export"}

TruthyS(s) == s # ""
Given(o) == o # <<>>
TruthyN(o) == o # <<>> /\ o[1] # 0

\* int(): truncation toward zero of the quotient a / b, b > 0
Trunc(a, b) == IF a >= 0 THEN a \div b ELSE -((-a) \div b)

InchScale == (254 * UnitsPerMm) \div 10

\* scale = 1000000 if unit == "mm" else 25400000
Scale(unit) == IF unit = "mm" THEN UnitsPerMm ELSE InchScale

\* int(value * scale): a JSON number v stands for v / JsonDen
ToInternal(v, unit) == Trunc(v * Scale(unit), JsonDen)

\* int(value * scale) for a value n / den that a computation has produced: a
\* position carries den when its numbers are not multiples of 1 / JsonDen
ToInternalOver(n, den, unit) == Trunc(n * Scale(unit), den)

\* a response that carries nothing besides success and message
NoData == <<>>

Ok == [success |-> TRUE, kind |-> "OK"]
Fail(kind) == [success |-> FALSE, kind |-> kind]

NoBox == [left |-> 0, top |-> 0, right |-> 0, bottom |-> 0]

\* a board without footprints, tracks, nets or net classes of its own
EmptyDoc == [footprints |-> <<>>, tracks |-> <<>>, box |-> NoBox,
             nets |-> <<>>, netclasses |-> <<>>]

\* params.get(name, default)
Param(p, name, default) == IF name \in DOMAIN p THEN p[name] ELSE default

\* the layers of a board: GetLayerID is negative for any other name
LayerNames == {"F.Cu", "B.Cu"}

\* a footprint as the library or the kernel makes it: on F.Cu, not rotated;
\* orient is in decidegrees
Footprint(ref, x, y, value, name) ==
    [ref |-> ref, x |-> x, y |-> y, value |-> value, name |-> name,
     layer |-> "F.Cu", orient |-> 0]

\* pcbnew.FootprintLoad: the footprints the library holds; a loaded footprint
\* carries the library's placeholder reference
LibraryIds == {"R_0603"}
LibraryReference == "REF**"

\* BOARD.FindFootprintByReference: the index of the first footprint carrying
\* the reference, 0 (None) when there is none
FindFootprintByReference(fps, ref) ==
    IF \E i \in 1..Len(fps) : fps[i].ref = ref
    THEN CHOOSE i \in 1..Len(fps) :
            /\ fps[i].ref = ref
            /\ \A j \in 1..(i - 1) : fps[j].ref # ref
    ELSE 0

RemoveAt(s, i) == [k \in 1..(Len(s) - 1) |-> IF k < i THEN s[k] ELSE s[k + 1]]

---------------------------------------------------------------------------
(* ComponentCommands *)

\* place_component: params componentId, position, reference, value, footprint
place_component(board, doc, p) ==
    IF board = NoBoard THEN [resp |-> Fail("NoBoardLoaded"), doc |-> doc]
    ELSE IF ~TruthyS(p.componentId) \/ ~Given(p.position)
    THEN [resp |-> Fail("MissingParameter"), doc |-> doc]
    ELSE IF p.componentId \notin LibraryIds
    THEN [resp |-> Fail("NotFound"), doc |-> doc]
    ELSE LET pos == p.position[1]
             loaded == Footprint(
                 IF TruthyS(p.reference) THEN p.reference ELSE LibraryReference,
                 ToInternalOver(pos.x, Param(pos, "den", JsonDen), pos.unit),
                 ToInternalOver(pos.y, Param(pos, "den", JsonDen), pos.unit),
                 IF TruthyS(p.value) THEN p.value ELSE p.componentId,
                 IF TruthyS(p.footprint) THEN p.footprint ELSE p.componentId)
             module == [loaded EXCEPT
                 !.orient = Param(p, "rotation", 0) * 10,
                 !.layer = IF Param(p, "layer", "F.Cu") \in LayerNames
                           THEN Param(p, "layer", "F.Cu") ELSE @]
         IN [resp |-> Ok,
             doc |-> [doc EXCEPT !.footprints = Append(@, module)]]

\* delete_component
delete_component(board, doc, p) ==
    IF board = NoBoard THEN [resp |-> Fail("NoBoardLoaded"), doc |-> doc]
    ELSE IF ~TruthyS(p.reference)
    THEN [resp |-> Fail("MissingParameter"), doc |-> doc]
    ELSE LET i == FindFootprintByReference(doc.footprints, p.reference)
         IN IF i = 0 THEN [resp |-> Fail("NotFound"), doc |-> doc]
            ELSE [resp |-> Ok,
                  doc |-> [doc EXCEPT !.footprints = RemoveAt(@, i)]]

\* edit_component: params reference, newReference, value, footprint
edit_component(board, doc, p) ==
    IF board = NoBoard THEN [resp |-> Fail("NoBoardLoaded"), doc |-> doc]
    ELSE IF ~TruthyS(p.reference)
    THEN [resp |-> Fail("MissingParameter"), doc |-> doc]
    ELSE LET i == FindFootprintByReference(doc.footprints, p.reference)
         IN IF i = 0 THEN [resp |-> Fail("NotFound"), doc |-> doc]
            ELSE LET m == doc.footprints[i]
                     m2 == [m EXCEPT
                              !.ref = IF TruthyS(p.newReference) THEN p.newReference ELSE @,
                              !.value = IF TruthyS(p.value) THEN p.value ELSE @,
                              !.name = IF TruthyS(p.footprint) THEN p.footprint ELSE @]
                 IN [resp |-> Ok,
                     doc |-> [doc EXCEPT !.footprints[i] = m2]]

OffsetNone(source) == [x |-> source.x, y |-> source.y]

\* without a position the copy lies 5 mm from the original along X
OffsetFromOriginal(source) == [x |-> source.x + 5 * UnitsPerMm, y |-> source.y]

\* duplicate_component: params reference, newReference, position, rotation
duplicate_component(board, doc, p) ==
    IF board = NoBoard THEN [resp |-> Fail("NoBoardLoaded"), doc |-> doc]
    ELSE IF ~TruthyS(p.reference) \/ ~TruthyS(p.newReference)
    THEN [resp |-> Fail("MissingParameter"), doc |-> doc]
    ELSE LET i == FindFootprintByReference(doc.footprints, p.reference)
         IN IF i = 0 THEN [resp |-> Fail("NotFound"), doc |-> doc]
            ELSE IF FindFootprintByReference(doc.footprints, p.newReference) # 0
            THEN [resp |-> Fail("AlreadyExists"), doc |-> doc]
            ELSE LET source == doc.footprints[i]
                     rotation == Param(p, "rotation", <<>>)
                     at == IF Given(p.position)
                           THEN [x |-> ToInternal(p.position[1].x,
                                                  Param(p.position[1], "unit", "mm")),
                                 y |-> ToInternal(p.position[1].y,
                                                  Param(p.position[1], "unit", "mm"))]
                           ELSE OffsetFromOriginal(source)
                     new_module ==
                        [Footprint(p.newReference, at.x, at.y, source.value, source.name)
                            EXCEPT !.layer = source.layer,
                                   !.orient = IF Given(rotation) THEN rotation[1] * 10
                                              ELSE source.orient]
                 IN [resp |-> Ok,
                     doc |-> [doc EXCEPT !.footprints = Append(@, new_module)]]

\* place_component_array, pattern grid (_place_grid_array): the cells row by
\* row, each placed through place_component; k is the zero-based cell number.
\* range(rows) and range(columns) are empty for a count below one
RECURSIVE place_grid_array(_, _, _, _, _)
place_grid_array(board, doc, p, k, placed) ==
    IF p.rows[1] <= 0 \/ p.columns[1] <= 0 \/ k >= p.rows[1] * p.columns[1]
    THEN [doc |-> doc, placed |-> placed]
    ELSE LET row == k \div p.columns[1]
             col == k % p.columns[1]
             start == p.startPosition[1]
             index == row * p.columns[1] + col + 1
             result == place_component(board, doc,
                 [componentId |-> p.componentId,
                  position |-> <<[x |-> start.x + col * p.spacingX[1],
                                  y |-> start.y + row * p.spacingY[1],
                                  unit |-> start.unit]>>,
                  reference |-> p.referencePrefix \o ToString(index),
                  value |-> p.value,
                  footprint |-> ""])
         IN place_grid_array(board, result.doc, p, k + 1,
                IF result.resp.success
                THEN Append(placed, result.doc.footprints[Len(result.doc.footprints)])
                ELSE placed)

\* math.cos(math.radians(deg)) for the multiples of 30 degrees, in units of
\* 1 / Cos(0)
RECURSIVE Cos(_)
Cos(deg) ==
    LET r == deg % 360
    IN IF r > 180 THEN Cos(360 - r)
       ELSE IF r > 90 THEN -Cos(180 - r)
       ELSE IF r = 0 THEN 10000
       ELSE IF r = 30 THEN 8660
       ELSE IF r = 60 THEN 5000
       ELSE 0

\* math.sin(math.radians(deg))
Sin(deg) == Cos(deg + 270)

\* the value that stands for 1.0
TrigOne == Cos(0)

ItemAngleFromOne(angle_start, i, angle_step) == angle_start + (i + 1) * angle_step

\* angle = angle_start + (i * angle_step)
ItemAngle(angle_start, i, angle_step) == angle_start + i * angle_step

\* place_component_array, pattern circular (_place_circular_array): item i of
\* range(count), each placed through place_component
RECURSIVE place_circular_array(_, _, _, _, _)
place_circular_array(board, doc, p, i, placed) ==
    IF i >= p.count[1] THEN [doc |-> doc, placed |-> placed]
    ELSE LET center == p.center[1]
             angle == ItemAngle(Param(p, "angleStart", 0), i, p.angleStep[1])
             result == place_component(board, doc,
                 [componentId |-> p.componentId,
                  position |-> <<[x |-> center.x * TrigOne + p.radius[1] * Cos(angle),
                                  y |-> center.y * TrigOne + p.radius[1] * Sin(angle),
                                  unit |-> Param(center, "unit", "mm"),
                                  den |-> JsonDen * TrigOne]>>,
                  reference |-> p.referencePrefix \o ToString(i + 1),
                  value |-> p.value,
                  footprint |-> "",
                  rotation |-> angle + Param(p, "rotationOffset", 0)])
         IN place_circular_array(board, result.doc, p, i + 1,
                IF result.resp.success
                THEN Append(placed, result.doc.footprints[Len(result.doc.footprints)])
                ELSE placed)

\* place_component_array: params componentId, pattern, count, referencePrefix,
\* value, startPosition, rows, columns, spacingX, spacingY, and center, radius,
\* angleStart, angleStep, rotationOffset
place_component_array(board, doc, p) ==
    IF board = NoBoard
    THEN [resp |-> Fail("NoBoardLoaded"), doc |-> doc, placed |-> <<>>]
    ELSE IF ~TruthyS(p.componentId) \/ ~TruthyN(p.count)
    THEN [resp |-> Fail("MissingParameter"), doc |-> doc, placed |-> <<>>]
    ELSE IF p.pattern = "grid"
    THEN IF \/ ~Given(p.startPosition) \/ ~TruthyN(p.rows) \/ ~TruthyN(p.columns)
            \/ ~TruthyN(p.spacingX) \/ ~TruthyN(p.spacingY)
         THEN [resp |-> Fail("MissingParameter"), doc |-> doc, placed |-> <<>>]
         ELSE IF p.rows[1] * p.columns[1] # p.count[1]
         THEN [resp |-> Fail("InvalidParameter"), doc |-> doc, placed |-> <<>>]
         ELSE LET r == place_grid_array(board, doc, p, 0, <<>>)
              IN [resp |-> Ok, doc |-> r.doc, placed |-> r.placed]
    ELSE IF p.pattern = "circular"
    THEN IF \/ ~Given(Param(p, "center", <<>>)) \/ ~TruthyN(Param(p, "radius", <<>>))
            \/ ~TruthyN(Param(p, "angleStep", <<>>))
         THEN [resp |-> Fail("MissingParameter"), doc |-> doc, placed |-> <<>>]
         ELSE LET r == place_circular_array(board, doc, p, 0, <<>>)
              IN [resp |-> Ok, doc |-> r.doc, placed |-> r.placed]
    ELSE [resp |-> Fail("InvalidParameter"), doc |-> doc, placed |-> <<>>]

---------------------------------------------------------------------------
(* ComponentCommands.align_components.  A selection is the sequence of the  *)
(* footprints (their indices in the board) the references resolve to; the  *)
(* same footprint appears twice when a reference is listed twice.          *)

Coord(fp, axis) == IF axis = "x" THEN fp.x ELSE fp.y
SetCoord(fp, axis, v) == IF axis = "x" THEN [fp EXCEPT !.x = v] ELSE [fp EXCEPT !.y = v]

RECURSIVE SumCoord(_, _, _)
SumCoord(fps, comps, axis) ==
    IF comps = <<>> THEN 0
    ELSE Coord(fps[Head(comps)], axis) + SumCoord(fps, Tail(comps), axis)

AverageTruncated(sum, n) == Trunc(sum, n)

\* y_avg = y_sum // len(components): Python's floor division
Average(sum, n) == sum \div n

\* list.sort(key=...): a stable sort; e goes behind every member whose key is
\* not greater than its own
RECURSIVE InsertByCoord(_, _, _, _)
InsertByCoord(fps, sorted, e, axis) ==
    IF sorted = <<>> THEN <<e>>
    ELSE IF Coord(fps[Head(sorted)], axis) <= Coord(fps[e], axis)
         THEN <<Head(sorted)>> \o InsertByCoord(fps, Tail(sorted), e, axis)
         ELSE <<e>> \o sorted

RECURSIVE SortByCoord(_, _, _)
SortByCoord(fps, comps, axis) ==
    IF comps = <<>> THEN <<>>
    ELSE InsertByCoord(fps, SortByCoord(fps, SubSeq(comps, 1, Len(comps) - 1), axis),
                       comps[Len(comps)], axis)

\* a loop that leaves the first of the components where it is
SetAllButFirst(fps, comps, axis, v) ==
    [i \in 1..Len(fps) |->
        IF \E k \in 2..Len(comps) : comps[k] = i THEN SetCoord(fps[i], axis, v) ELSE fps[i]]

\* for module in components: module.SetPosition(...) with one coordinate replaced
RECURSIVE SetAll(_, _, _, _)
SetAll(fps, comps, axis, v) ==
    IF comps = <<>> THEN fps
    ELSE SetAll([fps EXCEPT ![Head(comps)] = SetCoord(@, axis, v)], Tail(comps), axis, v)

\* a spacing that divides the span by the number of components
EqualSpacingByCount(total_space, n) == total_space \div n

\* spacing_nm = total_space // (len(components) - 1)
EqualSpacing(total_space, n) == total_space \div (n - 1)

\* for i in range(1, len(components) - 1): new = min + i * spacing_nm
\* (i is the zero-based position in the sorted list)
RECURSIVE EqualLoop(_, _, _, _, _, _)
EqualLoop(fps, sorted, i, axis, min, spacing_nm) ==
    IF i >= Len(sorted) - 1 THEN fps
    ELSE EqualLoop([fps EXCEPT ![sorted[i + 1]] = SetCoord(@, axis, min + i * spacing_nm)],
                   sorted, i + 1, axis, min, spacing_nm)

\* a loop that puts every later component one spacing from the first
SpacingLoopFromFirst(fps, sorted, i, axis, current, spacing_nm) ==
    [j \in 1..Len(fps) |->
        IF \E k \in (i + 1)..Len(sorted) : sorted[k] = j
        THEN SetCoord(fps[j], axis, current + spacing_nm) ELSE fps[j]]

\* for i in range(1, len(components)): current += spacing_nm; set
RECURSIVE SpacingLoop(_, _, _, _, _, _)
SpacingLoop(fps, sorted, i, axis, current, spacing_nm) ==
    IF i >= Len(sorted) THEN fps
    ELSE SpacingLoop([fps EXCEPT ![sorted[i + 1]] = SetCoord(@, axis, current + spacing_nm)],
                     sorted, i + 1, axis, current + spacing_nm, spacing_nm)

\* the common body of _align_components_horizontally (along "x", across "y")
\* and _align_components_vertically (along "y", across "x")
AlignAlong(fps, comps, distribution, spacing, along, across) ==
    LET avg == Average(SumCoord(fps, comps, across), Len(comps))
        sorted == SortByCoord(fps, comps, along)
        lined == SetAll(fps, sorted, across, avg)
        min == Coord(lined[sorted[1]], along)
        max == Coord(lined[sorted[Len(sorted)]], along)
    IN IF distribution = "equal" /\ Len(comps) > 1
       THEN EqualLoop(lined, sorted, 1, along, min, EqualSpacing(max - min, Len(sorted)))
       ELSE IF distribution = "spacing" /\ Given(spacing)
       THEN SpacingLoop(lined, sorted, 1, along, min, ToInternal(spacing[1], "mm"))
       ELSE lined

align_components_horizontally(fps, comps, distribution, spacing) ==
    AlignAlong(fps, comps, distribution, spacing, "x", "y")

align_components_vertically(fps, comps, distribution, spacing) ==
    AlignAlong(fps, comps, distribution, spacing, "y", "x")

\* components put on the edges of the bounding box themselves
AlignOntoEdge(doc, comps, edge) ==
    IF edge = "left" THEN SetAll(doc.footprints, comps, "x", doc.box.left)
    ELSE IF edge = "right" THEN SetAll(doc.footprints, comps, "x", doc.box.right)
    ELSE IF edge = "top" THEN SetAll(doc.footprints, comps, "y", doc.box.top)
    ELSE IF edge = "bottom" THEN SetAll(doc.footprints, comps, "y", doc.box.bottom)
    ELSE doc.footprints

\* _align_components_to_edge: 2 mm inside the bounding box of the board edges
align_components_to_edge(doc, comps, edge) ==
    IF edge = "left" THEN SetAll(doc.footprints, comps, "x", doc.box.left + 2 * UnitsPerMm)
    ELSE IF edge = "right" THEN SetAll(doc.footprints, comps, "x", doc.box.right - 2 * UnitsPerMm)
    ELSE IF edge = "top" THEN SetAll(doc.footprints, comps, "y", doc.box.top + 2 * UnitsPerMm)
    ELSE IF edge = "bottom" THEN SetAll(doc.footprints, comps, "y", doc.box.bottom - 2 * UnitsPerMm)
    ELSE doc.footprints

SelectionOfFound(fps, references) ==
    SelectSeq([k \in 1..Len(references) |->
                  FindFootprintByReference(fps, references[k])],
              LAMBDA i : i # 0)

\* the footprints the references resolve to, in the order listed
Selection(fps, references) ==
    [k \in 1..Len(references) |-> FindFootprintByReference(fps, references[k])]

\* align_components: params references, alignment, distribution, spacing, edge
align_components(board, doc, p) ==
    IF board = NoBoard THEN [resp |-> Fail("NoBoardLoaded"), doc |-> doc]
    ELSE IF Len(p.references) < 2
    THEN [resp |-> Fail("MissingParameter"), doc |-> doc]
    ELSE LET components == Selection(doc.footprints, p.references)
         IN IF \E k \in 1..Len(components) : components[k] = 0
            THEN [resp |-> Fail("NotFound"), doc |-> doc]
            ELSE IF p.alignment = "horizontal"
            THEN [resp |-> Ok,
                  doc |-> [doc EXCEPT !.footprints =
                      align_components_horizontally(@, components, p.distribution, p.spacing)]]
            ELSE IF p.alignment = "vertical"
            THEN [resp |-> Ok,
                  doc |-> [doc EXCEPT !.footprints =
                      align_components_vertically(@, components, p.distribution, p.spacing)]]
            ELSE IF p.alignment = "edge"
            THEN IF ~TruthyS(p.edge)
                 THEN [resp |-> Fail("MissingParameter"), doc |-> doc]
                 ELSE [resp |-> Ok,
                       doc |-> [doc EXCEPT !.footprints =
                           align_components_to_edge(doc, components, p.edge)]]
            ELSE [resp |-> Fail("InvalidParameter"), doc |-> doc]

---------------------------------------------------------------------------
(* ComponentCommands.move_component, BoardSizeCommands.set_board_size *)

\* move_component: params reference, position
move_component(board, doc, p) ==
    IF board = NoBoard THEN [resp |-> Fail("NoBoardLoaded"), doc |-> doc]
    ELSE IF ~TruthyS(p.reference) \/ ~Given(p.position)
    THEN [resp |-> Fail("MissingParameter"), doc |-> doc]
    ELSE LET i == FindFootprintByReference(doc.footprints, p.reference)
         IN IF i = 0 THEN [resp |-> Fail("NotFound"), doc |-> doc]
            ELSE [resp |-> Ok,
                  doc |-> [doc EXCEPT
                      !.footprints[i].x = ToInternal(p.position[1].x, p.position[1].unit),
                      !.footprints[i].y = ToInternal(p.position[1].y, p.position[1].unit)]]

\* set_board_size without its "if not self.board" guard
set_board_size_unguarded(board, doc, p) ==
    IF ~Given(p.width) \/ ~Given(p.height)
    THEN [resp |-> Fail("MissingParameter"), doc |-> doc]
    ELSE [resp |-> Ok, doc |-> doc]

\* set_board_size: params width, height, unit; the box keeps its origin
set_board_size(board, doc, p) ==
    IF board = NoBoard THEN [resp |-> Fail("NoBoardLoaded"), doc |-> doc]
    ELSE IF ~Given(p.width) \/ ~Given(p.height)
    THEN [resp |-> Fail("MissingParameter"), doc |-> doc]
    ELSE [resp |-> Ok,
          doc |-> [doc EXCEPT
              !.box.right = doc.box.left + ToInternal(p.width[1], p.unit),
              !.box.bottom = doc.box.top + ToInternal(p.height[1], p.unit)]]

---------------------------------------------------------------------------
(* RoutingCommands.delete_trace.  Distances are compared by their squares,  *)
(* which are integers.                                                     *)

\* an item of BOARD.Tracks(): a segment, or a via whose start and end are its
\* position; net "" is no net
Track(uuid, sx, sy, ex, ey) ==
    [uuid |-> uuid, sx |-> sx, sy |-> sy, ex |-> ex, ey |-> ey,
     kind |-> "track", layer |-> "F.Cu", net |-> "", width |-> 0]

\* _point_distance, squared
PointDistance2(x1, y1, x2, y2) == (x1 - x2) * (x1 - x2) + (y1 - y2) * (y1 - y2)

\* _point_to_track_distance, squared: c2 = (w . v) / c1 is the projection
\* coefficient; the projected point is truncated to whole internal units
PointToTrackDistance2(px, py, track) ==
    LET vx == track.ex - track.sx
        vy == track.ey - track.sy
        wx == px - track.sx
        wy == py - track.sy
        c1 == vx * vx + vy * vy
        dot == wx * vx + wy * vy
    IN IF c1 = 0 THEN PointDistance2(px, py, track.sx, track.sy)
       ELSE IF dot < 0 THEN PointDistance2(px, py, track.sx, track.sy)
       ELSE IF dot > c1 THEN PointDistance2(px, py, track.ex, track.ey)
       ELSE PointDistance2(px, py,
                Trunc(track.sx * c1 + dot * vx, c1),
                Trunc(track.sy * c1 + dot * vy, c1))

\* if dist < min_distance: the strict comparison keeps the first of equals
Closer(dist, min_distance) == dist < min_distance

\* for track in self.board.Tracks(): keep the closest.  closest = 0 is None,
\* with min_distance = float('inf')
RECURSIVE ClosestTrack(_, _, _, _, _, _)
ClosestTrack(tracks, px, py, k, closest, min_distance) ==
    IF k > Len(tracks) THEN [closest |-> closest, min_distance |-> min_distance]
    ELSE LET dist == PointToTrackDistance2(px, py, tracks[k])
         IN IF closest = 0 \/ Closer(dist, min_distance)
            THEN ClosestTrack(tracks, px, py, k + 1, k, dist)
            ELSE ClosestTrack(tracks, px, py, k + 1, closest, min_distance)

\* a threshold that takes a distance of exactly 1 mm too
WithinReachInclusive(min_distance) == min_distance <= UnitsPerMm * UnitsPerMm

\* min_distance < 1000000: within 1 mm
WithinReach(min_distance) == min_distance < UnitsPerMm * UnitsPerMm

\* the first track carrying the uuid, 0 when there is none
FindTrackByUuid(tracks, uuid) ==
    IF \E i \in 1..Len(tracks) : tracks[i].uuid = uuid
    THEN CHOOSE i \in 1..Len(tracks) :
            /\ tracks[i].uuid = uuid
            /\ \A j \in 1..(i - 1) : tracks[j].uuid # uuid
    ELSE 0

\* a selector check that takes exactly one of the two selectors
TraceSelectorExactlyOne(p) ==
    IF Given(p.traceUuid) = Given(p.position) THEN "none"
    ELSE IF Given(p.traceUuid) THEN "uuid"
    ELSE "position"

\* which selector delete_trace follows: "none", "uuid" or "position"
TraceSelector(p) ==
    IF ~Given(p.traceUuid) /\ ~Given(p.position) THEN "none"
    ELSE IF Given(p.traceUuid) THEN "uuid"
    ELSE "position"

\* delete_trace: params traceUuid, position
delete_trace(board, doc, p) ==
    IF board = NoBoard THEN [resp |-> Fail("NoBoardLoaded"), doc |-> doc]
    ELSE IF TraceSelector(p) = "none"
    THEN [resp |-> Fail("MissingParameter"), doc |-> doc]
    ELSE IF TraceSelector(p) = "uuid"
    THEN LET i == FindTrackByUuid(doc.tracks, p.traceUuid[1])
         IN IF i = 0 THEN [resp |-> Fail("NotFound"), doc |-> doc]
            ELSE [resp |-> Ok, doc |-> [doc EXCEPT !.tracks = RemoveAt(@, i)]]
    ELSE LET pos == p.position[1]
             c == ClosestTrack(doc.tracks, ToInternal(pos.x, pos.unit),
                               ToInternal(pos.y, pos.unit), 1, 0, 0)
         IN IF c.closest # 0 /\ WithinReach(c.min_distance)
            THEN [resp |-> Ok, doc |-> [doc EXCEPT !.tracks = RemoveAt(@, c.closest)]]
            ELSE [resp |-> Fail("NotFound"), doc |-> doc]

---------------------------------------------------------------------------
(* ExportCommands.export_bom *)

\* the component record export_bom makes of a footprint
BomComponent(fp) ==
    [reference |-> fp.ref, value |-> fp.value, footprint |-> fp.name, layer |-> fp.layer]

\* key = f"{comp['value']}_{comp['footprint']}"
BomKey(comp) == comp.value \o "_" \o comp.footprint

\* for comp in components: the dict grouped, in insertion order; k is the
\* component the loop is at
RECURSIVE GroupByKey(_, _, _)
GroupByKey(components, k, grouped) ==
    IF k > Len(components) THEN grouped
    ELSE LET comp == components[k]
             key == BomKey(comp)
         IN IF \A g \in 1..Len(grouped) : grouped[g].key # key
            THEN GroupByKey(components, k + 1,
                     Append(grouped, [key |-> key, value |-> comp.value,
                                      footprint |-> comp.footprint, quantity |-> 1,
                                      references |-> <<comp.reference>>]))
            ELSE LET g == CHOOSE g \in 1..Len(grouped) : grouped[g].key = key
                 IN GroupByKey(components, k + 1,
                        [grouped EXCEPT ![g].quantity = @ + 1,
                                        ![g].references = Append(@, comp.reference)])

\* list(grouped.values())
GroupedValues(grouped) ==
    [g \in 1..Len(grouped) |->
        [value |-> grouped[g].value, footprint |-> grouped[g].footprint,
         quantity |-> grouped[g].quantity, references |-> grouped[g].references]]

\* the formats export_bom writes; csv.DictWriter and the HTML header read
\* components[0]
BomFormats == {"CSV", "XML", "HTML", "JSON"}
NeedsFirstRow == {"CSV", "HTML"}

\* export_bom: params outputPath, format, groupByValue; data is the list of
\* components written to the file
export_bom(board, doc, p) ==
    IF board = NoBoard THEN [resp |-> Fail("NoBoardLoaded"), doc |-> doc, data |-> NoData]
    ELSE IF ~TruthyS(p.outputPath)
    THEN [resp |-> Fail("MissingParameter"), doc |-> doc, data |-> NoData]
    ELSE LET all == [k \in 1..Len(doc.footprints) |-> BomComponent(doc.footprints[k])]
             components == IF p.groupByValue
                           THEN GroupedValues(GroupByKey(all, 1, <<>>))
                           ELSE all
         IN IF p.format \notin BomFormats
            THEN [resp |-> Fail("InvalidParameter"), doc |-> doc, data |-> NoData]
            ELSE IF p.format \in NeedsFirstRow /\ components = <<>>
            THEN [resp |-> Fail("Internal"), doc |-> doc, data |-> NoData]
            ELSE [resp |-> Ok, doc |-> doc, data |-> components]

---------------------------------------------------------------------------
(* RoutingCommands: nets and net classes *)

\* NETINFO_LIST.FindNet, NETCLASSES.Find: the index of the item of that name,
\* 0 (None) when there is none
FindByName(items, name) ==
    IF \E i \in 1..Len(items) : items[i].name = name
    THEN CHOOSE i \in 1..Len(items) :
            /\ items[i].name = name
            /\ \A j \in 1..(i - 1) : items[j].name # name
    ELSE 0

\* a net the kernel makes: net code 0 is the unconnected net, so the codes
\* of the named nets count from 1
Net(name, code) == [name |-> name, code |-> code, class |-> "Default"]

AddNetAlways(nets, name) == Append(nets, Net(name, Len(nets) + 1))

\* net = netinfo.FindNet(name); if not net: net = netinfo.AddNet(name)
FindOrAddNet(nets, name) ==
    IF FindByName(nets, name) = 0
    THEN Append(nets, Net(name, Len(nets) + 1))
    ELSE nets

add_net(board, doc, p) ==
    IF board = NoBoard
    THEN [resp |-> Fail("NoBoardLoaded"), doc |-> doc, data |-> NoData]
    ELSE LET name == Param(p, "name", "")
             net_class == Param(p, "class", "")
         IN IF ~TruthyS(name)
            THEN [resp |-> Fail("MissingParameter"), doc |-> doc, data |-> NoData]
            ELSE LET nets == FindOrAddNet(doc.nets, name)
                     net == FindByName(nets, name)
                     classed == IF /\ TruthyS(net_class)
                                   /\ FindByName(doc.netclasses, net_class) # 0
                                THEN [nets EXCEPT ![net].class = net_class]
                                ELSE nets
                 IN [resp |-> Ok,
                     doc |-> [doc EXCEPT !.nets = classed],
                     data |-> [name |-> name,
                               class |-> IF TruthyS(net_class) THEN net_class
                                         ELSE "Default",
                               netcode |-> classed[net].code]]

\* the numeric properties of a net class, by the names of the parameters
NetclassFields ==
    {"clearance", "trackWidth", "viaDiameter", "viaDrill",
     "uviaDiameter", "uviaDrill", "diffPairWidth", "diffPairGap"}

\* pcbnew.NETCLASS(name): every property at the kernel's default, for which
\* 0.2 mm stands
NETCLASS(name) ==
    [name |-> name, rule |-> [f \in NetclassFields |-> (2 * UnitsPerMm) \div 10]]

\* the order in which create_netclass sets the properties
NetclassOrder ==
    <<"clearance", "trackWidth", "viaDiameter", "viaDrill",
      "uviaDiameter", "uviaDrill", "diffPairWidth", "diffPairGap">>

\* the properties of a request whose value int(value * scale) or the kernel's
\* setter refuses with an exception: a JSON string, a number beyond the
\* kernel's 32-bit int
Refused(p) == {f \in Param(p, "refused", {}) : Given(Param(p, f, <<>>))}

\* the setter of property f is reached and returns: no property before it, and
\* not f itself, is refused
IsSet(p, f) ==
    \A k \in 1..Len(NetclassOrder) :
        NetclassOrder[k] \in Refused(p) =>
            \E j \in 1..(k - 1) : NetclassOrder[j] = f

SetPropertiesAnew(netclass, p) ==
    [netclass EXCEPT !.rule =
        [f \in NetclassFields |->
            IF Given(Param(p, f, <<>>))
            THEN Trunc(p[f][1] * UnitsPerMm, JsonDen)
            ELSE NETCLASS(netclass.name).rule[f]]]

\* if clearance is not None: netclass.SetClearance(int(clearance * scale)),
\* and so for every property, until a setter raises
SetProperties(netclass, p) ==
    [netclass EXCEPT !.rule =
        [f \in NetclassFields |->
            IF Given(Param(p, f, <<>>)) /\ IsSet(p, f)
            THEN Trunc(p[f][1] * UnitsPerMm, JsonDen)
            ELSE netclass.rule[f]]]

\* create_netclass: params name, the properties, nets.  The class is added
\* before its properties are set; an exception of a setter is answered by the
\* except clause
create_netclass(board, doc, p) ==
    IF board = NoBoard
    THEN [resp |-> Fail("NoBoardLoaded"), doc |-> doc, data |-> NoData]
    ELSE LET name == Param(p, "name", "")
             nets == Param(p, "nets", <<>>)
         IN IF ~TruthyS(name)
            THEN [resp |-> Fail("MissingParameter"), doc |-> doc, data |-> NoData]
            ELSE LET classes == IF FindByName(doc.netclasses, name) = 0
                                THEN Append(doc.netclasses, NETCLASS(name))
                                ELSE doc.netclasses
                     i == FindByName(classes, name)
                     netclass == SetProperties(classes[i], p)
                     members == {nets[k] : k \in 1..Len(nets)}
                 IN IF Refused(p) # {}
                    THEN [resp |-> Fail("Internal"),
                          doc |-> [doc EXCEPT
                                     !.netclasses = [classes EXCEPT ![i] = netclass]],
                          data |-> NoData]
                    ELSE
                    [resp |-> Ok,
                     doc |-> [doc EXCEPT
                                !.netclasses = [classes EXCEPT ![i] = netclass],
                                !.nets = [k \in 1..Len(doc.nets) |->
                                            IF doc.nets[k].name \in members
                                            THEN [doc.nets[k] EXCEPT !.class = name]
                                            ELSE doc.nets[k]]],
                     data |-> netclass]


---------------------------------------------------------------------------
(* Python floats.  A float has FloatBits significant bits: [m, k] stands    *)
(* for m / 2^k.  Every coordinate of the model is below 2^(FloatBits - 1),  *)
(* so it is a float exactly and floats between whole units exist, as for    *)
(* the coordinates of a board and the doubles.                             *)

\* the float nearest to n / d, ties to the even significand, for n >= 0,
\* d > 0 and n / d below 2^FloatBits
FloatOf(n, d) ==
    IF n = 0 THEN [m |-> 0, k |-> 0]
    ELSE LET k == CHOOSE j \in 0..(2 * FloatBits) :
                     /\ 2 ^ (FloatBits - 1) * d <= n * 2 ^ j
                     /\ n * 2 ^ j < 2 ^ FloatBits * d
             q == (n * 2 ^ k) \div d
             r == (n * 2 ^ k) % d
             m == IF 2 * r > d \/ (2 * r = d /\ q % 2 = 1) THEN q + 1 ELSE q
         IN IF m = 2 ^ FloatBits
            THEN [m |-> m \div 2, k |-> k - 1]
            ELSE [m |-> m, k |-> k]

---------------------------------------------------------------------------
(* RoutingCommands: route_trace, add_via, route_differential_pair *)

\* module.FindPadByName(pad).GetPosition(): a footprint of the library has
\* the pads "1" and "2", a millimetre to either side of its position
PadPosition(fp, pad) ==
    [x |-> IF pad = "1" THEN fp.x - UnitsPerMm ELSE fp.x + UnitsPerMm, y |-> fp.y]

\* _get_point: the point, or NoPoint where the code raises ValueError
NoPoint == <<>>
get_point(doc, point_spec) ==
    IF "x" \in DOMAIN point_spec /\ "y" \in DOMAIN point_spec
    THEN [x |-> ToInternal(point_spec.x, Param(point_spec, "unit", "mm")),
          y |-> ToInternal(point_spec.y, Param(point_spec, "unit", "mm"))]
    ELSE IF "pad" \in DOMAIN point_spec /\ "componentRef" \in DOMAIN point_spec
    THEN LET module == FindFootprintByReference(doc.footprints, point_spec.componentRef)
         IN IF module # 0 /\ point_spec.pad \in {"1", "2"}
            THEN PadPosition(doc.footprints[module], point_spec.pad)
            ELSE NoPoint
    ELSE NoPoint

\* the uuid the kernel gives a new item: one no item of the board carries
NewUuid(tracks) ==
    CHOOSE u \in 1..(Len(tracks) + 1) :
        /\ \A k \in 1..Len(tracks) : tracks[k].uuid # u
        /\ \A v \in 1..(u - 1) : \E k \in 1..Len(tracks) : tracks[k].uuid = v

\* GetDesignSettings().GetCurrentTrackWidth(), for which 0.2 mm stands
CurrentTrackWidth == (2 * UnitsPerMm) \div 10

\* track.SetNet(net_obj) when the net is named and found
NetOf(doc, net) == IF TruthyS(net) /\ FindByName(doc.nets, net) # 0 THEN net ELSE ""

\* add_via past the conversion of the position; the via is an item of
\* BOARD.Tracks() whose layer is the first of its layer pair, and 0.8 mm
\* stands for GetCurrentViaSize()
PlaceVia(doc, x_nm, y_nm, p) ==
    IF \/ Param(p, "from_layer", "F.Cu") \notin LayerNames
       \/ Param(p, "to_layer", "B.Cu") \notin LayerNames
    THEN [resp |-> Fail("InvalidParameter"), doc |-> doc, data |-> NoData]
    ELSE LET size == Param(p, "size", <<>>)
             via == [Track(NewUuid(doc.tracks), x_nm, y_nm, x_nm, y_nm) EXCEPT
                        !.kind = "via",
                        !.layer = Param(p, "from_layer", "F.Cu"),
                        !.width = IF TruthyN(size)
                                  THEN Trunc(size[1] * UnitsPerMm, JsonDen)
                                  ELSE (8 * UnitsPerMm) \div 10,
                        !.net = NetOf(doc, Param(p, "net", ""))]
         IN [resp |-> Ok, doc |-> [doc EXCEPT !.tracks = Append(@, via)], data |-> via]

add_via(board, doc, p) ==
    IF board = NoBoard
    THEN [resp |-> Fail("NoBoardLoaded"), doc |-> doc, data |-> NoData]
    ELSE LET position == Param(p, "position", <<>>)
         IN IF ~Given(position)
            THEN [resp |-> Fail("MissingParameter"), doc |-> doc, data |-> NoData]
            ELSE IF "unit" \notin DOMAIN position[1]
            THEN [resp |-> Fail("Internal"), doc |-> doc, data |-> NoData]
            ELSE PlaceVia(doc, ToInternal(position[1].x, position[1].unit),
                               ToInternal(position[1].y, position[1].unit), p)

\* route_trace hands add_via the end point in millimetres,
\* via_point.x / 1000000, and add_via takes it back: int(position["x"] * scale)
ViaCoordinate(c) ==
    LET mm == FloatOf(IF c >= 0 THEN c ELSE -c, UnitsPerMm)
        nm == FloatOf(mm.m * UnitsPerMm, 2 ^ mm.k)
        x_nm == nm.m \div (2 ^ nm.k)
    IN IF c >= 0 THEN x_nm ELSE -x_nm

route_trace(board, doc, p) ==
    IF board = NoBoard
    THEN [resp |-> Fail("NoBoardLoaded"), doc |-> doc, data |-> NoData]
    ELSE IF ~Given(p.start) \/ ~Given(p.end)
    THEN [resp |-> Fail("MissingParameter"), doc |-> doc, data |-> NoData]
    ELSE IF p.layer \notin LayerNames
    THEN [resp |-> Fail("InvalidParameter"), doc |-> doc, data |-> NoData]
    ELSE LET start_point == get_point(doc, p.start[1])
             end_point == get_point(doc, p.end[1])
         IN IF start_point = NoPoint \/ end_point = NoPoint
            THEN [resp |-> Fail("Internal"), doc |-> doc, data |-> NoData]
            ELSE LET track ==
                         [Track(NewUuid(doc.tracks), start_point.x, start_point.y,
                                end_point.x, end_point.y) EXCEPT
                            !.layer = p.layer,
                            !.width = IF TruthyN(p.width)
                                      THEN Trunc(p.width[1] * UnitsPerMm, JsonDen)
                                      ELSE CurrentTrackWidth,
                            !.net = NetOf(doc, p.net)]
                     routed == [doc EXCEPT !.tracks = Append(@, track)]
                 IN [resp |-> Ok,
                     doc |-> IF p.via /\ TruthyS(p.net)
                             THEN PlaceVia(routed, ViaCoordinate(end_point.x),
                                           ViaCoordinate(end_point.y),
                                           [net |-> p.net]).doc
                             ELSE routed,
                     data |-> track]

GapOffset(c, gap_nm, length2) ==
    LET a == c * gap_nm
        k == CHOOSE j \in 0..gap_nm :
                /\ j * j * length2 <= a * a
                /\ (j + 1) * (j + 1) * length2 > a * a
    IN IF a >= 0 THEN k ELSE -k

\* int(c / length * gap_nm / 2) for a length whose square is length2 and a
\* gap that is not negative: the quotient truncated toward zero
HalfGapOffset(c, gap_nm, length2) ==
    LET a == c * gap_nm
        k == CHOOSE j \in 0..gap_nm :
                /\ 4 * j * j * length2 <= a * a
                /\ 4 * (j + 1) * (j + 1) * length2 > a * a
    IN IF a >= 0 THEN k ELSE -k

MissingBothNets(doc, p) ==
    FindByName(doc.nets, p.netPos) = 0 /\ FindByName(doc.nets, p.netNeg) = 0

\* if not net_pos_obj or not net_neg_obj
MissingNets(doc, p) ==
    FindByName(doc.nets, p.netPos) = 0 \/ FindByName(doc.nets, p.netNeg) = 0

route_differential_pair(board, doc, p) ==
    IF board = NoBoard
    THEN [resp |-> Fail("NoBoardLoaded"), doc |-> doc, data |-> NoData]
    ELSE IF \/ ~Given(p.startPos) \/ ~Given(p.endPos)
            \/ ~TruthyS(p.netPos) \/ ~TruthyS(p.netNeg)
    THEN [resp |-> Fail("MissingParameter"), doc |-> doc, data |-> NoData]
    ELSE IF p.layer \notin LayerNames
    THEN [resp |-> Fail("InvalidParameter"), doc |-> doc, data |-> NoData]
    ELSE IF MissingNets(doc, p)
    THEN [resp |-> Fail("NotFound"), doc |-> doc, data |-> NoData]
    ELSE LET start_point == get_point(doc, p.startPos[1])
             end_point == get_point(doc, p.endPos[1])
         IN IF start_point = NoPoint \/ end_point = NoPoint
            THEN [resp |-> Fail("Internal"), doc |-> doc, data |-> NoData]
            ELSE LET dx == end_point.x - start_point.x
                     dy == end_point.y - start_point.y
                     length2 == dx * dx + dy * dy
                     gap_nm == IF Given(p.gap)
                               THEN Trunc(p.gap[1] * UnitsPerMm, JsonDen)
                               ELSE (2 * UnitsPerMm) \div 10
                     offset_x == HalfGapOffset(-dy, gap_nm, length2)
                     offset_y == HalfGapOffset(dx, gap_nm, length2)
                     width_nm == IF TruthyN(p.width)
                                 THEN Trunc(p.width[1] * UnitsPerMm, JsonDen)
                                 ELSE CurrentTrackWidth
                     pos_track ==
                         [Track(NewUuid(doc.tracks),
                                start_point.x + offset_x, start_point.y + offset_y,
                                end_point.x + offset_x, end_point.y + offset_y) EXCEPT
                            !.layer = p.layer, !.net = p.netPos, !.width = width_nm]
                     neg_track ==
                         [Track(NewUuid(Append(doc.tracks, pos_track)),
                                start_point.x - offset_x, start_point.y - offset_y,
                                end_point.x - offset_x, end_point.y - offset_y) EXCEPT
                            !.layer = p.layer, !.net = p.netNeg, !.width = width_nm]
                 IN IF length2 <= 0
                    THEN [resp |-> Fail("InvalidParameter"), doc |-> doc, data |-> NoData]
                    ELSE [resp |-> Ok,
                          doc |-> [doc EXCEPT !.tracks = @ \o <<pos_track, neg_track>>],
                          data |-> NoData]


---------------------------------------------------------------------------
(* KiCADInterface: the command router, and main(): the request loop *)

\* command_routes: the commands each engine serves, and the schematic handlers
ProjectRoutes == {"create_project", "open_project", "save_project", "get_project_info"}
BoardRoutes == {"set_board_size", "get_board_info", "get_board_2d_view"}
ComponentRoutes ==
    {"place_component", "move_component", "rotate_component", "delete_component",
     "edit_component", "get_component_properties", "get_component_list",
     "place_component_array", "align_components", "duplicate_component"}
RoutingRoutes ==
    {"add_net", "route_trace", "add_via", "delete_trace", "get_nets_list",
     "create_netclass", "add_copper_pour", "route_differential_pair"}
DesignRuleRoutes == {"set_design_rules", "get_design_rules", "run_drc", "get_drc_violations"}
ExportRoutes == {"export_gerber", "export_pdf", "export_svg", "export_3d", "export_bom"}
SchematicRoutes ==
    {"create_schematic", "load_schematic", "add_schematic_component",
     "add_schematic_wire", "list_schematic_libraries", "export_schematic_pdf"}

CommandRoutes ==
    ProjectRoutes \cup BoardRoutes \cup ComponentRoutes \cup RoutingRoutes
        \cup DesignRuleRoutes \cup ExportRoutes \cup SchematicRoutes

EngineOf(cmd) ==
    IF cmd \in ProjectRoutes THEN "project"
    ELSE IF cmd \in BoardRoutes THEN "board"
    ELSE IF cmd \in ComponentRoutes THEN "component"
    ELSE IF cmd \in RoutingRoutes THEN "routing"
    ELSE IF cmd \in DesignRuleRoutes THEN "design_rule"
    ELSE "export"

\* the handlers that open with "if not self.board"; of their work past that
\* guard the session keeps nothing, and the routing and export handlers among
\* them are modelled in full for the specifications of their own
GuardedRoutes ==
    {"save_project", "get_project_info", "get_board_info", "get_board_2d_view",
     "rotate_component", "get_component_properties", "get_component_list",
     "add_net", "route_trace", "add_via", "get_nets_list", "create_netclass",
     "add_copper_pour", "route_differential_pair",
     "set_design_rules", "get_design_rules", "run_drc", "get_drc_violations",
     "export_gerber", "export_pdf", "export_svg", "export_3d", "export_bom"}

DocOf(b) == IF b = NoBoard THEN EmptyDoc ELSE boards[b]
StoreDoc(b, d) == IF b = NoBoard THEN boards ELSE [boards EXCEPT ![b] = d]

Line(kind, cmd, p) == [kind |-> kind, cmd |-> cmd, p |-> p]

\* pcbnew.GetBoard()
GetBoard == frameBoard

\* a refresh that reaches the component engine only
update_component_handler(board) == [e \in Engines |-> IF e = "component" THEN board ELSE NoBoard]

\* _update_command_handlers
update_command_handlers(board) == [e \in Engines |-> board]

\* handle_command for a handler of a board engine: the handler's result r is
\* returned as it is; print(json.dumps(response))
Handle(cmd, p, r) ==
    /\ pc = "loop"
    /\ last' = Line("command", cmd, p)
    /\ resp' = r.resp
    /\ pre' = DocOf(engineBoard[EngineOf(cmd)])
    /\ data' = IF "data" \in DOMAIN r THEN r.data ELSE NoData
    /\ boards' = StoreDoc(engineBoard[EngineOf(cmd)], r.doc)
    /\ out' = <<"response">>
    /\ UNCHANGED <<pc, routerBoard, engineBoard, frameBoard, nMade, madeBoard, schFiles>>

Origin == [x |-> 0, y |-> 0, unit |-> "mm"]

\* the document a board file holds, the documents the editor may hold
FileDoc == [EmptyDoc EXCEPT !.footprints = <<Footprint("R1", 0, 0, "R_0603", "R_0603")>>]
EditorDocs == {EmptyDoc, FileDoc}

\* create_project, then handle_command's refresh of every board reference.
\* made is whether the file operations (makedirs, SaveBoard, open) succeed.
CreateProject ==
    \E made \in BOOLEAN :
        /\ pc = "loop"
        /\ last' = Line("command", "create_project", <<>>)
        /\ pre' = EmptyDoc
        /\ data' = NoData
        /\ out' = <<"response">>
        /\ IF made
           THEN /\ nMade < MaxMade
                /\ nMade' = nMade + 1
                /\ madeBoard' = EditorBoard + nMade + 1
                /\ boards' = [b \in (DOMAIN boards) \cup {EditorBoard + nMade + 1} |->
                                 IF b \in DOMAIN boards THEN boards[b] ELSE EmptyDoc]
                /\ resp' = Ok
                /\ routerBoard' = GetBoard
                /\ engineBoard' = update_command_handlers(GetBoard)
           ELSE /\ resp' = Fail("Internal")
                /\ UNCHANGED <<nMade, madeBoard, boards, routerBoard, engineBoard>>
        /\ UNCHANGED <<pc, frameBoard, schFiles>>

\* open_project, then handle_command's refresh of every board reference.
\* loaded is what pcbnew.LoadBoard finds: <<>> when it raises
OpenProject ==
    \E filename \in {"", "a.kicad_pcb"}, loaded \in {<<>>, <<FileDoc>>} :
        /\ pc = "loop"
        /\ last' = Line("command", "open_project", [filename |-> filename])
        /\ pre' = EmptyDoc
        /\ data' = NoData
        /\ out' = <<"response">>
        /\ IF ~TruthyS(filename)
           THEN /\ resp' = Fail("MissingParameter")
                /\ UNCHANGED <<nMade, madeBoard, boards, routerBoard, engineBoard>>
           ELSE IF loaded = <<>>
           THEN /\ resp' = Fail("Internal")
                /\ UNCHANGED <<nMade, madeBoard, boards, routerBoard, engineBoard>>
           ELSE /\ nMade < MaxMade
                /\ nMade' = nMade + 1
                /\ madeBoard' = EditorBoard + nMade + 1
                /\ boards' = [b \in (DOMAIN boards) \cup {EditorBoard + nMade + 1} |->
                                 IF b \in DOMAIN boards THEN boards[b] ELSE loaded[1]]
                /\ resp' = Ok
                /\ routerBoard' = GetBoard
                /\ engineBoard' = update_command_handlers(GetBoard)
        /\ UNCHANGED <<pc, frameBoard, schFiles>>

\* the parameters the session draws for the component commands
References == {"", "R1", "R2"}
PlaceParams ==
    [componentId : {"", "R_0603", "X_9999"}, position : {<<>>, <<Origin>>},
     reference : References, value : {""}, footprint : {""}]
EditParams == [reference : References, newReference : References, value : {""}, footprint : {""}]
DuplicateParams == [reference : {"", "R1"}, newReference : References, position : {<<Origin>>}]
DeleteParams == [reference : References]
MoveParams == [reference : {"", "R1"}, position : {<<>>, <<Origin>>}]
SessionArrayParams ==
    [componentId : {"R_0603"}, pattern : {"grid", "ring"}, count : {<<>>, <<1>>},
     referencePrefix : {"R"}, value : {""}, startPosition : {<<Origin>>},
     rows : {<<1>>}, columns : {<<1>>}, spacingX : {<<1>>}, spacingY : {<<0>>, <<1>>}]
SessionAlignParams ==
    [references : {<<"R1">>, <<"R1", "R2">>},
     alignment : {"horizontal", "edge", "diagonal"},
     distribution : {"none"}, spacing : {<<>>}, edge : {"", "middle"}]
SessionTraceParams == [traceUuid : {<<>>, <<1>>}, position : {<<>>, <<Origin>>}]
SizeParams == [width : {<<>>, <<1>>}, height : {<<1>>}, unit : {"mm"}]

ComponentBoard == engineBoard["component"]

\* room bounds the footprints a document of the model holds
HasRoom(room) == Len(DocOf(ComponentBoard).footprints) < room

PlaceComponent(room) ==
    \E p \in PlaceParams :
        /\ HasRoom(room)
        /\ Handle("place_component", p, place_component(ComponentBoard, DocOf(ComponentBoard), p))

MoveComponent ==
    \E p \in MoveParams :
        Handle("move_component", p, move_component(ComponentBoard, DocOf(ComponentBoard), p))

DeleteComponent ==
    \E p \in DeleteParams :
        Handle("delete_component", p, delete_component(ComponentBoard, DocOf(ComponentBoard), p))

EditComponent ==
    \E p \in EditParams :
        Handle("edit_component", p, edit_component(ComponentBoard, DocOf(ComponentBoard), p))

DuplicateComponent(room) ==
    \E p \in DuplicateParams :
        /\ HasRoom(room)
        /\ Handle("duplicate_component", p,
                  duplicate_component(ComponentBoard, DocOf(ComponentBoard), p))

PlaceComponentArray(room) ==
    \E p \in SessionArrayParams :
        /\ HasRoom(room)
        /\ LET r == place_component_array(ComponentBoard, DocOf(ComponentBoard), p)
           IN Handle("place_component_array", p, [resp |-> r.resp, doc |-> r.doc])

AlignComponents ==
    \E p \in SessionAlignParams :
        Handle("align_components", p, align_components(ComponentBoard, DocOf(ComponentBoard), p))

DeleteTrace ==
    \E p \in SessionTraceParams :
        Handle("delete_trace", p,
               delete_trace(engineBoard["routing"], DocOf(engineBoard["routing"]), p))

SetBoardSize ==
    \E p \in SizeParams :
        Handle("set_board_size", p,
               set_board_size(engineBoard["board"], DocOf(engineBoard["board"]), p))

\* a handler of GuardedRoutes: "No board is loaded" without a board; with one,
\* it succeeds or fails and the footprints, tracks and box stay as they are
GuardedCommand ==
    \E cmd \in GuardedRoutes, r \in {Ok, Fail("Internal")} :
        Handle(cmd, <<>>,
               [resp |-> IF engineBoard[EngineOf(cmd)] = NoBoard THEN Fail("NoBoardLoaded") ELSE r,
                doc |-> DocOf(engineBoard[EngineOf(cmd)])])

\* a schematic handler: it never reads self.board.  prints is the number of
\* print() calls of the schematic managers on the way, files the schematic
\* files it wrote
Schematic(cmd, p, r, prints, files) ==
    /\ pc = "loop"
    /\ last' = Line("command", cmd, p)
    /\ resp' = r
    /\ pre' = EmptyDoc
    /\ data' = NoData
    /\ out' = [k \in 1..prints |-> "text"] \o <<"response">>
    /\ schFiles' = schFiles \cup files
    /\ UNCHANGED <<pc, routerBoard, engineBoard, frameBoard, nMade, madeBoard, boards>>

\* _handle_create_schematic; env is what SchematicManager meets: Schematic()
\* raising, or schematic.write succeeding or failing
CreateSchematic ==
    \E projectName \in {"", "amp"}, env \in {"raise", "saved", "write_failed"} :
        LET p == [projectName |-> projectName]
        IN IF ~TruthyS(projectName)
           THEN Schematic("create_schematic", p, Fail("MissingParameter"), 0, {})
           ELSE IF env = "raise"
           THEN Schematic("create_schematic", p, Fail("Internal"), 0, {})
           ELSE IF env = "saved"
           THEN Schematic("create_schematic", p, Ok, 2, {"amp.kicad_sch"})
           ELSE Schematic("create_schematic", p, Fail("Internal"), 2, {})

\* _handle_load_schematic; env: the file is missing or unreadable, or loads
LoadSchematic ==
    \E filename \in {"", "amp.kicad_sch"}, env \in {"missing", "loaded"} :
        LET p == [filename |-> filename]
        IN IF ~TruthyS(filename)
           THEN Schematic("load_schematic", p, Fail("MissingParameter"), 0, {})
           ELSE IF env = "missing"
           THEN Schematic("load_schematic", p, Fail("NotFound"), 1, {})
           ELSE Schematic("load_schematic", p, Ok, 2, {})

\* _handle_add_schematic_component and _handle_add_schematic_wire: load, add,
\* save; given is whether the required parameters are all there
AddToSchematic ==
    \E cmd \in {"add_schematic_component", "add_schematic_wire"}, given \in BOOLEAN,
       env \in {"missing", "add_failed", "added"} :
        LET p == [given |-> given]
        IN IF ~given
           THEN Schematic(cmd, p, Fail("MissingParameter"), 0, {})
           ELSE IF env = "missing"
           THEN Schematic(cmd, p, Fail("NotFound"), 1, {})
           ELSE IF env = "add_failed"
           THEN Schematic(cmd, p, Fail("Internal"), 2, {})
           ELSE Schematic(cmd, p, Ok, 3, {"amp.kicad_sch"})

\* _handle_list_schematic_libraries: LibraryManager prints what it found
ListSchematicLibraries ==
    Schematic("list_schematic_libraries", <<>>, Ok, 1, {})

\* _handle_export_schematic_pdf: kicad-cli runs with its output captured
ExportSchematicPdf ==
    \E given \in BOOLEAN, env \in {"raise", "failed", "exported"} :
        LET p == [given |-> given]
        IN IF ~given
           THEN Schematic("export_schematic_pdf", p, Fail("MissingParameter"), 0, {})
           ELSE IF env = "exported"
           THEN Schematic("export_schematic_pdf", p, Ok, 0, {})
           ELSE Schematic("export_schematic_pdf", p, Fail("Internal"), 0, {})

\* a line main() answers itself, without a handler
Answer(kind, cmd, r) ==
    /\ pc = "loop"
    /\ last' = Line(kind, cmd, <<>>)
    /\ resp' = r
    /\ pre' = EmptyDoc
    /\ data' = NoData
    /\ out' = <<"response">>
    /\ UNCHANGED <<pc, routerBoard, engineBoard, frameBoard, nMade, madeBoard, boards, schFiles>>

\* json.loads raises JSONDecodeError: text that is not JSON, an empty line
LineNotJson == Answer("not_json", "", Fail("InvalidJSON"))

\* json.loads returns a number, a string, a list, true, false or null: the
\* value has no get(), the AttributeError is not a JSONDecodeError and leaves
\* the for loop; main() logs it and calls sys.exit(1)
LineNotObject ==
    /\ pc = "loop"
    /\ pc' = "exit1"
    /\ last' = Line("not_object", "", <<>>)
    /\ resp' = Fail("Internal")
    /\ pre' = EmptyDoc
    /\ data' = NoData
    /\ out' = <<>>
    /\ UNCHANGED <<routerBoard, engineBoard, frameBoard, nMade, madeBoard, boards, schFiles>>

\* an object without a command, or with an empty one
LineNoCommand == Answer("no_command", "", Fail("MissingCommand"))

LineUnknownCommandRefreshing ==
    \E cmd \in {"fly", "place"} :
        /\ cmd \notin CommandRoutes
        /\ pc = "loop"
        /\ last' = Line("command", cmd, <<>>)
        /\ resp' = Fail("UnknownCommand")
        /\ pre' = EmptyDoc
        /\ data' = NoData
        /\ out' = <<"response">>
        /\ routerBoard' = GetBoard
        /\ engineBoard' = update_command_handlers(GetBoard)
        /\ UNCHANGED <<pc, frameBoard, nMade, madeBoard, boards, schFiles>>

\* command_routes.get(command) is None
LineUnknownCommand ==
    \E cmd \in {"fly", "place"} :
        /\ cmd \notin CommandRoutes
        /\ Answer("command", cmd, Fail("UnknownCommand"))

StartLine == Line("start", "", <<>>)
Started == [success |-> TRUE, kind |-> "Started"]

\* KiCADInterface.__init__: no board anywhere; the editor may hold one
Init ==
    /\ pc = "loop"
    /\ routerBoard = NoBoard
    /\ engineBoard = [e \in Engines |-> NoBoard]
    /\ frameBoard \in {NoBoard, EditorBoard}
    /\ nMade = 0
    /\ madeBoard = NoBoard
    /\ boards \in [{EditorBoard} -> EditorDocs]
    /\ schFiles = {}
    /\ out = <<>>
    /\ last = StartLine
    /\ resp = Started
    /\ pre = EmptyDoc
    /\ data = NoData

Next ==
    \/ LineNotJson
    \/ LineNotObject
    \/ LineNoCommand
    \/ LineUnknownCommand
    \/ CreateProject
    \/ OpenProject
    \/ PlaceComponent(MaxSessionFootprints)
    \/ MoveComponent
    \/ DeleteComponent
    \/ EditComponent
    \/ DuplicateComponent(MaxSessionFootprints)
    \/ PlaceComponentArray(MaxSessionFootprints)
    \/ AlignComponents
    \/ DeleteTrace
    \/ SetBoardSize
    \/ GuardedCommand
    \/ CreateSchematic
    \/ LoadSchematic
    \/ AddToSchematic
    \/ ListSchematicLibraries
    \/ ExportSchematicPdf

Spec == Init /\ [][Next]_vars

---------------------------------------------------------------------------
(* A session with a board loaded: the component commands on the document   *)
(* of the board the engines hold                                           *)

InitBoard ==
    /\ pc = "loop"
    /\ routerBoard = EditorBoard
    /\ engineBoard = [e \in Engines |-> EditorBoard]
    /\ frameBoard = EditorBoard
    /\ nMade = 0
    /\ madeBoard = NoBoard
    /\ boards \in [{EditorBoard} -> EditorDocs]
    /\ schFiles = {}
    /\ out = <<>>
    /\ last = StartLine
    /\ resp = Started
    /\ pre = EmptyDoc
    /\ data = NoData

\* a loaded board that holds one of the documents
InitWith(docs) ==
    /\ pc = "loop"
    /\ routerBoard = EditorBoard
    /\ engineBoard = [e \in Engines |-> EditorBoard]
    /\ frameBoard = EditorBoard
    /\ nMade = 0
    /\ madeBoard = NoBoard
    /\ boards \in [{EditorBoard} -> docs]
    /\ schFiles = {}
    /\ out = <<>>
    /\ last = StartLine
    /\ resp = Started
    /\ pre = EmptyDoc
    /\ data = NoData

NextBoard ==
    \/ PlaceComponent(MaxFootprints)
    \/ MoveComponent
    \/ DeleteComponent
    \/ EditComponent
    \/ DuplicateComponent(MaxFootprints)
    \/ PlaceComponentArray(MaxFootprints)
    \/ AlignComponents

SpecBoard == InitBoard /\ [][NextBoard]_vars

---------------------------------------------------------------------------
(* The router and the request loop: properties of Spec                     *)

\* no create_project and no open_project has succeeded yet
Uninitialized == nMade = 0

CreateOrOpen == {"create_project", "open_project"}

\* the commands of the dispatch table served by a board engine
EngineRoutes == CommandRoutes \ SchematicRoutes

\* what a command may not change when it is refused
RefusedLeaves == <<pc, routerBoard, engineBoard, frameBoard, nMade, madeBoard, boards, schFiles>>

C2_AllHoldTheNewBoard ==
    (last.kind = "command" /\ last.cmd \in CreateOrOpen /\ resp.success)
        => (/\ madeBoard # NoBoard
            /\ routerBoard = madeBoard
            /\ \A e \in Engines : engineBoard[e] = madeBoard)

\* C3: no input line ends the request loop, and every bad line is answered
\* with a success:false response.
C3_LoopSurvives ==
    /\ pc = "loop"
    /\ (last.kind \in {"not_json", "not_object", "no_command"}
            => (out # <<>> /\ ~resp.success))

\* C4: every input line is answered by exactly one line on standard output,
\* the JSON response, and nothing else is written there.
C4_OneLinePerRequest ==
    last.kind # "start" => out = <<"response">>

\* C23: a command name the dispatch table does not hold is answered with
\* UnknownCommand and success false; no handler runs, and the board reference
\* of the router and of every engine, the boards and the schematic files stay
\* as they are, before and after a create_project or open_project.
C23_UnknownCommandRefused ==
    [][(last'.kind = "command" /\ last'.cmd \notin CommandRoutes)
        => (/\ resp' = Fail("UnknownCommand")
            /\ ~resp'.success
            /\ out' = <<"response">>
            /\ UNCHANGED RefusedLeaves)]_vars

\* an unknown command has been refused after a create_project or open_project
\* succeeded, by a router that holds a board
C23_Witness ==
    /\ last.kind = "command" /\ last.cmd \notin CommandRoutes
    /\ resp = Fail("UnknownCommand")
    /\ ~Uninitialized
    /\ routerBoard # NoBoard
    /\ \A e \in Engines : engineBoard[e] = routerBoard

\* C27: between two commands the router and the six engines hold the same
\* board reference, whatever commands have succeeded or failed: none of them
\* holds a board before the first successful create_project or open_project,
\* and afterwards they never hold different boards.
C27_OneBoardEverywhere ==
    /\ \A e \in Engines : engineBoard[e] = routerBoard
    /\ Uninitialized => routerBoard = NoBoard

\* a create_project or open_project has succeeded in a running editor, and
\* the router and the engines hold the board of the editor
C27_Witness ==
    /\ last.kind = "command" /\ last.cmd \in CreateOrOpen /\ resp.success
    /\ ~Uninitialized
    /\ routerBoard = EditorBoard
    /\ \A e \in Engines : engineBoard[e] = EditorBoard

---------------------------------------------------------------------------
(* Components of a loaded board: properties of SpecBoard                   *)

\* C5: no two components of a board carry the same reference.
C5_ReferencesUnique ==
    \A b \in DOMAIN boards :
        \A i, j \in 1..Len(boards[b].footprints) :
            boards[b].footprints[i].ref = boards[b].footprints[j].ref => i = j

---------------------------------------------------------------------------
(* place_component_array with pattern grid, on a loaded board              *)

Optional(S) == {<<>>} \cup {<<v>> : v \in S}

GridParams ==
    [componentId : {"R_0603", "X_9999"}, pattern : {"grid"},
     count : Optional(0..(MaxGrid * MaxGrid)),
     referencePrefix : {"U", "R"}, value : {""},
     startPosition : {<<>>, <<Origin>>, <<[x |-> 1, y |-> 2, unit |-> "inch"]>>},
     rows : Optional(0..MaxGrid), columns : Optional(0..MaxGrid),
     spacingX : {<<0>>, <<1>>, <<2>>}, spacingY : {<<0>>, <<1>>, <<2>>}]

GridArray ==
    \E p \in GridParams :
        /\ last = StartLine
        /\ LET r == place_component_array(ComponentBoard, DocOf(ComponentBoard), p)
           IN Handle("place_component_array", p, [resp |-> r.resp, doc |-> r.doc])

SpecGrid == InitBoard /\ [][GridArray]_vars

\* the footprints the command has added to the document it found
Added == SubSeq(boards[EditorBoard].footprints, Len(pre.footprints) + 1,
                Len(boards[EditorBoard].footprints))

\* a grid request on a loaded board with a resolvable componentId, all grid
\* parameters there, rows and columns at least 1 and rows * columns = count
GridRequest ==
    /\ last.kind = "command" /\ last.cmd = "place_component_array"
    /\ last.p.pattern = "grid"
    /\ last.p.componentId \in LibraryIds
    /\ Given(last.p.startPosition) /\ Given(last.p.count)
    /\ Given(last.p.rows) /\ Given(last.p.columns)
    /\ Given(last.p.spacingX) /\ Given(last.p.spacingY)
    /\ last.p.rows[1] >= 1 /\ last.p.columns[1] >= 1
    /\ last.p.rows[1] * last.p.columns[1] = last.p.count[1]

\* the footprints a grid request asks for: cell k (zero-based, row-major) is
\* prefix(k+1) at (startX + col*spacingX, startY + row*spacingY) converted
GridCells ==
    LET p == last.p
        start == p.startPosition[1]
    IN [k \in 1..p.count[1] |->
            [ref |-> p.referencePrefix \o ToString(k),
             x |-> ToInternal(start.x + ((k - 1) % p.columns[1]) * p.spacingX[1], start.unit),
             y |-> ToInternal(start.y + ((k - 1) \div p.columns[1]) * p.spacingY[1], start.unit)]]

\* C6: a grid request with a resolvable componentId, rows, columns >= 1 and
\* rows * columns = count inserts exactly count components, referenced
\* prefix1..prefixN row-major, the one of cell (row, col) at
\* (startX + col*spacingX, startY + row*spacingY) in internal units.
C6_GridInserted ==
    GridRequest =>
        /\ resp.success
        /\ SubSeq(boards[EditorBoard].footprints, 1, Len(pre.footprints)) = pre.footprints
        /\ Len(Added) = last.p.count[1]
        /\ \A k \in 1..Len(Added) :
              /\ Added[k].ref = GridCells[k].ref
              /\ Added[k].x = GridCells[k].x
              /\ Added[k].y = GridCells[k].y

\* the same with spacingX and spacingY both different from 0
GridInsertedNonzeroSpacing ==
    (GridRequest /\ last.p.spacingX[1] # 0 /\ last.p.spacingY[1] # 0) =>
        /\ resp.success
        /\ Len(Added) = last.p.count[1]
        /\ \A k \in 1..Len(Added) :
              /\ Added[k].ref = GridCells[k].ref
              /\ Added[k].x = GridCells[k].x
              /\ Added[k].y = GridCells[k].y

\* a grid request on a loaded board that names a component and supplies count,
\* startPosition, rows, columns, spacingX and spacingY
GridSupplied ==
    /\ last.kind = "command" /\ last.cmd = "place_component_array"
    /\ last.p.pattern = "grid"
    /\ TruthyS(last.p.componentId)
    /\ Given(last.p.startPosition) /\ Given(last.p.count)
    /\ Given(last.p.rows) /\ Given(last.p.columns)
    /\ Given(last.p.spacingX) /\ Given(last.p.spacingY)

GridMismatch == last.p.rows[1] * last.p.columns[1] # last.p.count[1]

\* C21: a grid request whose rows * columns differs from count fails with
\* InvalidParameter and inserts no component.
C21_MismatchRejected ==
    (GridSupplied /\ GridMismatch) =>
        /\ resp = Fail("InvalidParameter")
        /\ boards[EditorBoard] = pre

\* the same for requests whose count, rows, columns and spacings are all
\* different from 0
MismatchRejectedNonzero ==
    (GridSupplied /\ GridMismatch /\ TruthyN(last.p.count) /\ TruthyN(last.p.rows)
        /\ TruthyN(last.p.columns) /\ TruthyN(last.p.spacingX) /\ TruthyN(last.p.spacingY)) =>
        /\ resp = Fail("InvalidParameter")
        /\ boards[EditorBoard] = pre

\* a mismatching grid request never inserts anything, whatever it answers
MismatchInsertsNothing ==
    (GridSupplied /\ GridMismatch) => (~resp.success /\ boards[EditorBoard] = pre)

---------------------------------------------------------------------------
(* place_component_array with either pattern, on a loaded board; the       *)
(* response carries the list of the components placed                      *)

MaxRing == 4

CircularParams ==
    [componentId : {"R_0603", "X_9999"}, pattern : {"circular"},
     count : Optional(0..MaxRing),
     referencePrefix : {"U", "R"}, value : {""},
     center : {<<>>, <<Origin>>, <<[x |-> 1, y |-> -3, unit |-> "inch"]>>,
               <<[x |-> 2, y |-> 1]>>},
     radius : Optional({0, 2, 3}), angleStart : {0, 30},
     angleStep : Optional({0, 60, 90}), rotationOffset : {0, 90}]
      \cup
    [componentId : {"R_0603"}, pattern : {"circular"}, count : {<<MaxRing>>},
     referencePrefix : {"U"}, value : {""}, center : {<<Origin>>},
     radius : {<<2>>}, angleStep : {<<90>>}]

\* grid requests with one spacing in each direction
ArrayGridParams ==
    [componentId : {"R_0603", "X_9999"}, pattern : {"grid"},
     count : Optional(0..(MaxGrid * MaxGrid)),
     referencePrefix : {"U"}, value : {""},
     startPosition : {<<Origin>>, <<[x |-> 1, y |-> 2, unit |-> "inch"]>>},
     rows : Optional(0..MaxGrid), columns : Optional(0..MaxGrid),
     spacingX : {<<1>>}, spacingY : {<<2>>}]

ArrayPlacement ==
    \E p \in ArrayGridParams \cup CircularParams :
        /\ last = StartLine
        /\ LET r == place_component_array(ComponentBoard, DocOf(ComponentBoard), p)
           IN Handle("place_component_array", p,
                     [resp |-> r.resp, doc |-> r.doc, data |-> r.placed])

SpecArray == InitBoard /\ [][ArrayPlacement]_vars

\* a circular request that names a component of the library and succeeded
CircularPlaced ==
    /\ last.kind = "command" /\ last.cmd = "place_component_array"
    /\ last.p.pattern = "circular"
    /\ last.p.componentId \in LibraryIds
    /\ resp.success

\* v internal units lie less than one internal unit from n / (JsonDen * TrigOne)
\* in the unit of the request
Near(v, n, unit) ==
    /\ v * (JsonDen * TrigOne) - n * Scale(unit) < JsonDen * TrigOne
    /\ n * Scale(unit) - v * (JsonDen * TrigOne) < JsonDen * TrigOne

\* the directions of the four axes, in the order of the angles 0, 90, 180, 270
AxisDirections == <<<<1, 0>>, <<0, 1>>, <<-1, 0>>, <<0, -1>>>>

ArrayPlaced ==
    /\ last.kind = "command" /\ last.cmd = "place_component_array"
    /\ resp.success

\* C29: when place_component_array answers success, the count its message
\* reports is the number of components it inserted into the board, which is
\* the length of the list of components it returns.
C29_ReportsWhatItPlaced ==
    ArrayPlaced =>
        /\ Len(data) = last.p.count[1]
        /\ Len(Added) = Len(data)
        /\ Added = data

\* the list returned is always the components inserted; the count of the
\* message is their number when the library holds the component
ReturnsWhatItPlaced ==
    ArrayPlaced =>
        /\ Added = data
        /\ last.p.componentId \in LibraryIds => Len(data) = last.p.count[1]


---------------------------------------------------------------------------
(* delete_trace on a loaded board                                          *)

\* the points tracks start and end at, in internal units
TrackEnds == {<<0, 0>>, <<8, 0>>, <<10 * UnitsPerMm, 0>>, <<0, 3>>, <<6, 8>>}

\* the tracks of a board: BOARD.Tracks() in its order, the uuids distinct
TrackLists ==
    UNION {[1..n -> TrackEnds \X TrackEnds] : n \in 0..MaxTracks}

TracksOf(ends) ==
    [k \in 1..Len(ends) |-> Track(k, ends[k][1][1], ends[k][1][2], ends[k][2][1], ends[k][2][2])]

InitTrace ==
    /\ pc = "loop"
    /\ routerBoard = EditorBoard
    /\ engineBoard = [e \in Engines |-> EditorBoard]
    /\ frameBoard = EditorBoard
    /\ nMade = 0
    /\ madeBoard = NoBoard
    /\ \E ends \in TrackLists :
          boards = [b \in {EditorBoard} |-> [EmptyDoc EXCEPT !.tracks = TracksOf(ends)]]
    /\ schFiles = {}
    /\ out = <<>>
    /\ last = StartLine
    /\ resp = Started
    /\ pre = EmptyDoc
    /\ data = NoData

TracePositions ==
    {[x |-> x, y |-> y, unit |-> "mm"] : x \in {0, 1, 2, 5 * JsonDen}, y \in {0, 1, 2, 5 * JsonDen}}
        \cup {[x |-> 1, y |-> 0, unit |-> "inch"]}

TraceParams ==
    [traceUuid : Optional({1, 2, 9}), position : Optional(TracePositions)]

TraceDelete ==
    \E p \in TraceParams :
        /\ last = StartLine
        /\ Handle("delete_trace", p,
                  delete_trace(engineBoard["routing"], DocOf(engineBoard["routing"]), p))

SpecTrace == InitTrace /\ [][TraceDelete]_vars

TraceRequest == last.kind = "command" /\ last.cmd = "delete_trace"

Tracks == boards[EditorBoard].tracks

\* the request names a track by uuid and the board holds it: the first track
\* with that uuid is gone and the others are as they were
RemovedByUuid ==
    /\ resp.success
    /\ \E k \in 1..Len(pre.tracks) :
          /\ pre.tracks[k].uuid = last.p.traceUuid[1]
          /\ \A j \in 1..(k - 1) : pre.tracks[j].uuid # last.p.traceUuid[1]
          /\ Tracks = RemoveAt(pre.tracks, k)

\* C7 as stated: with neither selector, and likewise with both, delete_trace
\* fails with MissingParameter and removes no track.
C7_AsStated ==
    (TraceRequest /\ Given(last.p.traceUuid) = Given(last.p.position))
        => (resp = Fail("MissingParameter") /\ Tracks = pre.tracks)

\* C7 amended: with neither selector delete_trace fails with MissingParameter
\* and removes no track; with both it follows traceUuid and ignores position:
\* it removes the track carrying the uuid, or fails with NotFound and removes
\* nothing when no track carries it.
C7_MissingOnlyWhenNeither ==
    /\ (TraceRequest /\ ~Given(last.p.traceUuid) /\ ~Given(last.p.position))
          => (resp = Fail("MissingParameter") /\ Tracks = pre.tracks)
    /\ (TraceRequest /\ Given(last.p.traceUuid) /\ Given(last.p.position))
          => IF \E k \in 1..Len(pre.tracks) : pre.tracks[k].uuid = last.p.traceUuid[1]
             THEN RemovedByUuid
             ELSE resp = Fail("NotFound") /\ Tracks = pre.tracks

\* both selectors were given and the track of the uuid, the second of two,
\* was removed
C7_Witness ==
    /\ TraceRequest
    /\ Given(last.p.traceUuid) /\ Given(last.p.position)
    /\ resp.success
    /\ Len(pre.tracks) = 2 /\ last.p.traceUuid[1] = 2
    /\ Tracks = <<pre.tracks[1]>>

\* the distance, squared, from (px, py) to the track t: to its start when it
\* has no length, else to the point of the segment at the projection
\* parameter clamped to [0, 1], that point taken in whole internal units
SegmentDistance2(px, py, t) ==
    LET vx == t.ex - t.sx
        vy == t.ey - t.sy
        c1 == vx * vx + vy * vy
        dot == (px - t.sx) * vx + (py - t.sy) * vy
        num == IF dot < 0 THEN 0 ELSE IF dot > c1 THEN c1 ELSE dot
    IN IF c1 = 0 THEN (px - t.sx) * (px - t.sx) + (py - t.sy) * (py - t.sy)
       ELSE LET qx == Trunc(t.sx * c1 + num * vx, c1)
                qy == Trunc(t.sy * c1 + num * vy, c1)
            IN (px - qx) * (px - qx) + (py - qy) * (py - qy)

PositionRequest == TraceRequest /\ ~Given(last.p.traceUuid) /\ Given(last.p.position)

\* the distance, squared, of track k of the board from the requested position
DistanceOf(k) ==
    SegmentDistance2(ToInternal(last.p.position[1].x, last.p.position[1].unit),
                     ToInternal(last.p.position[1].y, last.p.position[1].unit),
                     pre.tracks[k])

OneMm2 == UnitsPerMm * UnitsPerMm

\* the track (0,0)-(10,0) mm alone on the board
ExampleTrack == <<Track(1, 0, 0, 10 * UnitsPerMm, 0)>>

\* C8: delete_trace by position removes a track if and only if some track is
\* strictly nearer than 1 mm; it then removes exactly one track, one of
\* minimum distance; otherwise it fails with NotFound and the tracks are
\* unchanged.  The track (0,0)-(10,0) mm is deleted from a position at x = 5 mm
\* just off the track, and not from (5, 5) mm.
C8_NearestWithinOneMm ==
    /\ PositionRequest =>
          IF \E k \in 1..Len(pre.tracks) : DistanceOf(k) < OneMm2
          THEN /\ resp.success
               /\ \E k \in 1..Len(pre.tracks) :
                     /\ \A j \in 1..Len(pre.tracks) : DistanceOf(k) <= DistanceOf(j)
                     /\ Tracks = RemoveAt(pre.tracks, k)
          ELSE resp = Fail("NotFound") /\ Tracks = pre.tracks
    /\ (PositionRequest /\ pre.tracks = ExampleTrack /\ last.p.position[1].unit = "mm"
            /\ last.p.position[1].x = 5 * JsonDen)
          => /\ last.p.position[1].y = 1 => (resp.success /\ Tracks = <<>>)
             /\ last.p.position[1].y = 5 * JsonDen
                   => (resp = Fail("NotFound") /\ Tracks = ExampleTrack)

\* of two tracks both nearer than 1 mm the second, the nearer one, was removed,
\* and the position is on neither track
C8_Witness ==
    /\ PositionRequest
    /\ Len(pre.tracks) = 2
    /\ DistanceOf(1) < OneMm2 /\ DistanceOf(2) < DistanceOf(1) /\ DistanceOf(2) > 0
    /\ resp.success
    /\ Tracks = <<pre.tracks[1]>>

---------------------------------------------------------------------------
(* align_components on a loaded board of MaxAlign components R1, R2, ...    *)

AlignXs == {-3, 0, 1, 4}
AlignYs == {0, 4}

RefOf(k) == "R" \o ToString(k)

AlignBoards ==
    {[k \in 1..MaxAlign |-> Footprint(RefOf(k), at[k][1], at[k][2], "R_0603", "R_0603")] :
        at \in [1..MaxAlign -> AlignXs \X AlignYs]}

InitAlign ==
    /\ pc = "loop"
    /\ routerBoard = EditorBoard
    /\ engineBoard = [e \in Engines |-> EditorBoard]
    /\ frameBoard = EditorBoard
    /\ nMade = 0
    /\ madeBoard = NoBoard
    /\ \E fps \in AlignBoards :
          boards = [b \in {EditorBoard} |-> [EmptyDoc EXCEPT !.footprints = fps]]
    /\ schFiles = {}
    /\ out = <<>>
    /\ last = StartLine
    /\ resp = Started
    /\ pre = EmptyDoc
    /\ data = NoData

\* the references lists: the first k components in board order, two of them
\* in reverse order, and a list that names R1 twice
ReferenceLists ==
    {[k \in 1..n |-> RefOf(k)] : n \in 2..MaxAlign}
        \cup {<<"R2", "R1">>, <<"R1", "R2", "R1">>}

AlignParams ==
    [references : ReferenceLists, alignment : {"horizontal", "vertical"},
     distribution : {"none", "equal"}, spacing : {<<>>}, edge : {""}]
        \cup [references : ReferenceLists, alignment : {"horizontal", "vertical"},
              distribution : {"spacing"}, spacing : {<<>>, <<0>>, <<1>>}, edge : {""}]
        \cup [references : {<<>>, <<"R1">>, <<"R9">>, <<"R1", "R9">>, <<"R1", "R2">>},
              alignment : {"horizontal", "edge", "diagonal"},
              distribution : {"none"}, spacing : {<<>>}, edge : {"", "left"}]

Align ==
    \E p \in AlignParams :
        /\ last = StartLine
        /\ Handle("align_components", p,
                  align_components(ComponentBoard, DocOf(ComponentBoard), p))

SpecAlign == InitAlign /\ [][Align]_vars

\* align_components has succeeded with the given alignment
Aligned(alignment) ==
    /\ last.kind = "command" /\ last.cmd = "align_components"
    /\ resp.success
    /\ last.p.alignment = alignment

Now == boards[EditorBoard].footprints
Was == pre.footprints

\* the components the references name
Selected == {i \in 1..Len(Was) : \E k \in 1..Len(last.p.references) : last.p.references[k] = Was[i].ref}

DistinctReferences ==
    \A j, k \in 1..Len(last.p.references) :
        last.p.references[j] = last.p.references[k] => j = k

\* the coordinates of the components S along an axis, in ascending order
RECURSIVE SortedCoords(_, _, _)
SortedCoords(fps, S, axis) ==
    IF S = {} THEN <<>>
    ELSE LET i == CHOOSE i \in S : \A j \in S : Coord(fps[i], axis) <= Coord(fps[j], axis)
         IN <<Coord(fps[i], axis)>> \o SortedCoords(fps, S \ {i}, axis)

IsProgression(s) == \A i \in 1..(Len(s) - 2) : s[i + 1] - s[i] = s[i + 2] - s[i + 1]

\* the coordinates along the axis form an arithmetic progression from the
\* original minimum to the original maximum
ProgressionBetweenExtremes(axis) ==
    LET s == SortedCoords(Now, Selected, axis)
        s0 == SortedCoords(Was, Selected, axis)
    IN IsProgression(s) /\ s[1] = s0[1] /\ s[Len(s)] = s0[Len(s0)]

\* C9 as stated: horizontal alignment with distribution equal leaves the X
\* values of the selection, in sorted order, an arithmetic progression from
\* the original minimum X to the original maximum X; vertical alignment does
\* the same to the Y values.
C9_AsStated ==
    /\ (Aligned("horizontal") /\ last.p.distribution = "equal") => ProgressionBetweenExtremes("x")
    /\ (Aligned("vertical") /\ last.p.distribution = "equal") => ProgressionBetweenExtremes("y")

\* the first and the last keep the original extremes and the i-th of the
\* others, counted from 1 in sorted order, is i whole steps from the minimum,
\* a step being the span divided by N - 1 and rounded down
SteppedBetweenExtremes(axis) ==
    LET s == SortedCoords(Now, Selected, axis)
        s0 == SortedCoords(Was, Selected, axis)
        n == Len(s0)
        step == (s0[n] - s0[1]) \div (n - 1)
    IN /\ Len(s) = n
       /\ s[n] = s0[n]
       /\ \A i \in 1..(n - 1) : s[i] = s0[1] + (i - 1) * step

\* C9 amended: on N >= 2 components named by distinct references, horizontal
\* alignment with distribution equal keeps the minimum and the maximum X and
\* puts the components between them at whole multiples of
\* floor((max - min) / (N - 1)) from the minimum, so that the last gap is
\* longer by the remainder of that division and the X values are an
\* arithmetic progression only when N - 1 divides max - min; vertical
\* alignment does the same to the Y values.
C9_EqualStepsFromMinimum ==
    /\ (Aligned("horizontal") /\ last.p.distribution = "equal" /\ DistinctReferences)
          => SteppedBetweenExtremes("x")
    /\ (Aligned("vertical") /\ last.p.distribution = "equal" /\ DistinctReferences)
          => SteppedBetweenExtremes("y")

\* three components distributed over a span of 7: the middle one has moved to
\* 3 from the minimum and is 4 from the maximum
C9_Witness ==
    /\ Aligned("horizontal") /\ last.p.distribution = "equal" /\ DistinctReferences
    /\ Len(last.p.references) = 3
    /\ SortedCoords(Was, Selected, "x") = <<-3, 1, 4>>
    /\ SortedCoords(Now, Selected, "x") = <<-3, 0, 4>>

\* C10: after a successful horizontal alignment all selected components have
\* one Y, with distribution none each of them keeps its X, and no unselected
\* component moves; after a successful vertical alignment all selected
\* components have one X, with distribution none each keeps its Y, and no
\* unselected component moves.
C10_AlignedOnOneLine ==
    /\ Aligned("horizontal") =>
          /\ Len(Now) = Len(Was)
          /\ \A i, j \in Selected : Now[i].y = Now[j].y
          /\ last.p.distribution = "none" => \A i \in Selected : Now[i].x = Was[i].x
          /\ \A i \in (1..Len(Was)) \ Selected : Now[i] = Was[i]
    /\ Aligned("vertical") =>
          /\ Len(Now) = Len(Was)
          /\ \A i, j \in Selected : Now[i].x = Now[j].x
          /\ last.p.distribution = "none" => \A i \in Selected : Now[i].y = Was[i].y
          /\ \A i \in (1..Len(Was)) \ Selected : Now[i] = Was[i]

\* two components of different Y and different X were aligned horizontally
\* with distribution none, beside a third, unselected one of yet another Y
C10_Witness ==
    /\ Aligned("horizontal") /\ last.p.distribution = "none"
    /\ Len(Was) >= 3 /\ Selected = {1, 2}
    /\ Was[1].y # Was[2].y /\ Was[1].x # Was[2].x
    /\ Now[1].y = Now[2].y /\ Now[3].y # Now[1].y
    /\ Now[1].y # Was[1].y /\ Now[2].y # Was[2].y

\* the sum of the original coordinates of the components S along an axis
RECURSIVE SumOver(_, _)
SumOver(S, axis) ==
    IF S = {} THEN 0
    ELSE LET i == CHOOSE i \in S : TRUE
         IN Coord(Was[i], axis) + SumOver(S \ {i}, axis)

\* every selected component has the coordinate m along the axis
CommonCoord(axis, m) == \A i \in Selected : Coord(Now[i], axis) = m

\* m is sum / n rounded toward zero, n > 0
IsTruncatedMean(m, sum, n) ==
    IF sum >= 0 THEN n * m <= sum /\ sum < n * m + n
    ELSE sum <= n * m /\ n * m < sum + n

\* m is sum / n rounded toward minus infinity, n > 0
IsFloorMean(m, sum, n) == n * m <= sum /\ sum < n * m + n

SpacedFromMinimum(axis) ==
    LET n == Cardinality(Selected)
        step == ToInternal(last.p.spacing[1], "mm")
        min == SortedCoords(Was, Selected, axis)[1]
    IN \E rank \in [Selected -> 0..(n - 1)] :
          /\ \A i, j \in Selected : i # j => rank[i] # rank[j]
          /\ \A i, j \in Selected :
                Coord(Was[i], axis) < Coord(Was[j], axis) => rank[i] < rank[j]
          /\ \A i \in Selected : Coord(Now[i], axis) = min + rank[i] * step
          /\ \A i \in Selected : rank[i] = 0 => Coord(Now[i], axis) = Coord(Was[i], axis)

AlignRequest == last.kind = "command" /\ last.cmd = "align_components"
TooFew == Len(last.p.references) < 2
Unresolved ==
    \E k \in 1..Len(last.p.references) :
        \A i \in 1..Len(Was) : Was[i].ref # last.p.references[k]
EdgeUnnamed == last.p.alignment = "edge" /\ last.p.edge = ""

\* C19: align_components fails NotFound when a listed reference does not
\* resolve, MissingParameter when fewer than two references are supplied or
\* when the alignment is edge and no edge is named, and no such failure has
\* moved a component.  Where several of these hold the answer is that of one
\* of them: of too few references first, then of an unresolved reference.
C19_RefusedWithoutMoving ==
    AlignRequest =>
        /\ TooFew => resp = Fail("MissingParameter")
        /\ Unresolved /\ ~TooFew => resp = Fail("NotFound")
        /\ EdgeUnnamed /\ ~Unresolved => resp = Fail("MissingParameter")
        /\ (TooFew \/ Unresolved \/ EdgeUnnamed) => Now = Was

\* the second of two references does not resolve, on a board whose
\* components lie on different lines
C19_Witness ==
    /\ AlignRequest
    /\ last.p.references = <<"R1", "R9">> /\ last.p.alignment = "horizontal"
    /\ resp = Fail("NotFound")
    /\ Was[1].y # Was[2].y /\ Now = Was

---------------------------------------------------------------------------
(* align_components with alignment edge, on boards with and without an     *)
(* outline                                                                 *)

EdgeDocs ==
    {[EmptyDoc EXCEPT
        !.footprints = [k \in 1..3 |->
                           Footprint(RefOf(k), at[k][1], at[k][2], "R_0603", "R_0603")],
        !.box = box] :
        at \in [1..3 -> {<<-3, 0>>, <<1, 4>>, <<4, 1>>}],
        box \in {NoBox, [left |-> -10, top |-> 5, right |-> 20 * UnitsPerMm,
                         bottom |-> 10 * UnitsPerMm]}}

EdgeParams ==
    [references : {<<"R1", "R2">>, <<"R3", "R1">>, <<"R2", "R1", "R3">>, <<"R2", "R2">>},
     alignment : {"edge"}, distribution : {"none", "equal"}, spacing : {<<>>},
     edge : {"", "left", "right", "top", "bottom", "middle", "Left"}]

AlignToEdge ==
    \E p \in EdgeParams :
        /\ last = StartLine
        /\ Handle("align_components", p,
                  align_components(ComponentBoard, DocOf(ComponentBoard), p))

SpecEdge == InitWith(EdgeDocs) /\ [][AlignToEdge]_vars

\* the selected components have the coordinate v along the axis and nothing
\* else of them has changed
SnappedTo(axis, v) == \A i \in Selected : Now[i] = SetCoord(Was[i], axis, v)

\* C26: a successful edge alignment changes one coordinate of each selected
\* component and nothing else: for left, X becomes the left of the bounding
\* box plus 2 mm; for right, its right minus 2 mm; for top, Y becomes its top
\* plus 2 mm; for bottom, its bottom minus 2 mm.  With any other edge value
\* the command succeeds and no component has moved.
C26_SnappedToTheEdge ==
    (AlignRequest /\ last.p.alignment = "edge" /\ TruthyS(last.p.edge)) =>
        /\ resp.success
        /\ Len(Now) = Len(Was)
        /\ \A i \in (1..Len(Was)) \ Selected : Now[i] = Was[i]
        /\ last.p.edge = "left" => SnappedTo("x", pre.box.left + 2 * UnitsPerMm)
        /\ last.p.edge = "right" => SnappedTo("x", pre.box.right - 2 * UnitsPerMm)
        /\ last.p.edge = "top" => SnappedTo("y", pre.box.top + 2 * UnitsPerMm)
        /\ last.p.edge = "bottom" => SnappedTo("y", pre.box.bottom - 2 * UnitsPerMm)
        /\ last.p.edge \notin {"left", "right", "top", "bottom"} => Now = Was

\* two of three components, at different X and Y, were snapped to the right
\* edge of a board with an outline: they share the X 2 mm inside it, keep
\* their Y, and the third has not moved
C26_Witness ==
    /\ AlignRequest /\ last.p.alignment = "edge" /\ last.p.edge = "right"
    /\ resp.success
    /\ pre.box.right = 20 * UnitsPerMm
    /\ Selected = {1, 2}
    /\ Was[1].x # Was[2].x /\ Was[1].y # Was[2].y
    /\ Now[1].x = 18 * UnitsPerMm /\ Now[2].x = 18 * UnitsPerMm
    /\ Now[1].y = Was[1].y /\ Now[2].y = Was[2].y
    /\ Now[3] = Was[3]

---------------------------------------------------------------------------
(* duplicate_component, applied once to a board of two components, the      *)
(* first of them on the back of the board and turned                        *)

DuplicateDocs ==
    {[EmptyDoc EXCEPT !.footprints =
        <<[Footprint("R1", x, 4, "10k", "R_0603") EXCEPT !.layer = "B.Cu", !.orient = 900],
          Footprint("R2", 0, 0, "1k", "R_0805")>>] : x \in {-3, 0, 7}}

Duplicate ==
    \E p \in [reference : {"", "R1", "R9"}, newReference : {"", "R2", "R3"},
               position : Optional({[x |-> 1, y |-> 2, unit |-> "mm"], [x |-> 1, y |-> 2],
                                    [x |-> 1, y |-> 0, unit |-> "inch"]}),
               rotation : Optional({0, 45})] :
        /\ last = StartLine
        /\ Handle("duplicate_component", p,
                  duplicate_component(ComponentBoard, DocOf(ComponentBoard), p))

SpecDuplicate == InitWith(DuplicateDocs) /\ [][Duplicate]_vars

\* duplicate_component is asked to copy one named component to another name
DuplicateRequest ==
    /\ last.kind = "command" /\ last.cmd = "duplicate_component"
    /\ last.p.reference # "" /\ last.p.newReference # ""

Carrying(ref) == {i \in 1..Len(Was) : Was[i].ref = ref}

\* C20: duplicate_component fails NotFound when no component carries the
\* source reference and AlreadyExists when one carries newReference, and
\* then the components are as they were; otherwise it succeeds and appends
\* exactly one component, which carries newReference and the value, the
\* footprint name and the layer of the source, lies 5 mm from the source
\* along X when no position is given, and has the rotation of the source
\* when none is given; the source and every other component stay as they
\* were.
C20_CopyKeepsTheSource ==
    DuplicateRequest =>
        /\ Carrying(last.p.reference) = {} => resp = Fail("NotFound") /\ Now = Was
        /\ Carrying(last.p.reference) # {} /\ Carrying(last.p.newReference) # {}
              => resp = Fail("AlreadyExists") /\ Now = Was
        /\ Carrying(last.p.reference) # {} /\ Carrying(last.p.newReference) = {}
              => /\ resp.success
                 /\ Len(Now) = Len(Was) + 1
                 /\ SubSeq(Now, 1, Len(Was)) = Was
                 /\ \A i \in Carrying(last.p.reference) :
                       LET copy == Now[Len(Now)]
                       IN /\ copy.ref = last.p.newReference
                          /\ copy.value = Was[i].value
                          /\ copy.name = Was[i].name
                          /\ copy.layer = Was[i].layer
                          /\ last.p.position = <<>>
                                => copy.x = Was[i].x + 5 * UnitsPerMm /\ copy.y = Was[i].y
                          /\ last.p.rotation = <<>> => copy.orient = Was[i].orient

\* a component on the back of the board, turned by 90 degrees, is copied
\* without a position and without a rotation
C20_Witness ==
    /\ DuplicateRequest /\ resp.success
    /\ last.p.position = <<>> /\ last.p.rotation = <<>>
    /\ Was[1].ref = last.p.reference
    /\ Was[1].layer = "B.Cu" /\ Was[1].orient = 900 /\ Was[1].x = 7
    /\ Now[3].x = 7 + 5 * UnitsPerMm /\ Now[3].layer = "B.Cu" /\ Now[3].orient = 900
    /\ Now[1] = Was[1]

---------------------------------------------------------------------------
(* export_bom on a loaded board of up to MaxBom components R1, R2, ...      *)

BomValues == {"R", "R_0603", "C"}
BomNames == {"0603_1608Metric", "1608Metric"}

BomBoards ==
    UNION {{[k \in 1..n |-> Footprint(RefOf(k), 0, 0, of[k][1], of[k][2])] :
                of \in [1..n -> BomValues \X BomNames]} : n \in 0..MaxBom}

InitBom ==
    /\ pc = "loop"
    /\ routerBoard = EditorBoard
    /\ engineBoard = [e \in Engines |-> EditorBoard]
    /\ frameBoard = EditorBoard
    /\ nMade = 0
    /\ madeBoard = NoBoard
    /\ \E fps \in BomBoards :
          boards = [b \in {EditorBoard} |-> [EmptyDoc EXCEPT !.footprints = fps]]
    /\ schFiles = {}
    /\ out = <<>>
    /\ last = StartLine
    /\ resp = Started
    /\ pre = EmptyDoc
    /\ data = NoData

BomParams ==
    [outputPath : {"", "bom.out"}, format : {"CSV", "JSON", "PDF"}, groupByValue : BOOLEAN]

ExportBom ==
    \E p \in BomParams :
        /\ last = StartLine
        /\ Handle("export_bom", p,
                  export_bom(engineBoard["export"], DocOf(engineBoard["export"]), p))

SpecBom == InitBom /\ [][ExportBom]_vars

\* export_bom has written a grouped bill of materials
Grouped ==
    /\ last.kind = "command" /\ last.cmd = "export_bom"
    /\ resp.success
    /\ last.p.groupByValue

Listed(entry) == {entry.references[k] : k \in 1..Len(entry.references)}

RECURSIVE SumQuantity(_)
SumQuantity(entries) ==
    IF entries = <<>> THEN 0 ELSE Head(entries).quantity + SumQuantity(Tail(entries))

---------------------------------------------------------------------------
(* Nets and net classes: add_net and create_netclass, called again and     *)
(* again on a loaded board                                                 *)

AddNet ==
    \E p \in [name : {"", "GND", "VCC"}, class : {"", "Power", "Other"}] :
        Handle("add_net", p,
               add_net(engineBoard["routing"], DocOf(engineBoard["routing"]), p))

CreateNetclass ==
    \E p \in [name : {"", "Power", "Signal"}, clearance : Optional({0}),
               trackWidth : Optional({3}), nets : {<<>>, <<"VCC", "GND">>}]
                 \cup
               [name : {"Power"}, clearance : Optional({0}), trackWidth : {<<3>>},
                nets : {<<"VCC", "GND">>}, refused : {{"trackWidth"}}] :
        Handle("create_netclass", p,
               create_netclass(engineBoard["routing"], DocOf(engineBoard["routing"]), p))

NextNets == AddNet \/ CreateNetclass

SpecNets == InitWith({EmptyDoc}) /\ [][NextNets]_vars

\* the document of the loaded board
Doc == boards[EditorBoard]

\* the command that has just succeeded
Succeeded(cmd) == last.kind = "command" /\ last.cmd = cmd /\ resp.success

Named(items, name) == {k \in 1..Len(items) : items[k].name = name}

\* the value create_netclass is asked to give a property
Supplied(f) == Trunc(last.p[f][1] * UnitsPerMm, JsonDen)

\* C14: create_netclass is an upsert by name: there is at most one class of
\* a name, and a call naming an existing class overwrites exactly the
\* numeric properties it supplies, every other property of that class, and
\* every other class, keeping its value.
C14_UpsertByName ==
    /\ \A i, j \in 1..Len(Doc.netclasses) :
          Doc.netclasses[i].name = Doc.netclasses[j].name => i = j
    /\ Succeeded("create_netclass") =>
          /\ Cardinality(Named(Doc.netclasses, last.p.name)) = 1
          /\ \A i \in 1..Len(pre.netclasses) :
                /\ Doc.netclasses[i].name = pre.netclasses[i].name
                /\ \A f \in NetclassFields :
                      Doc.netclasses[i].rule[f] =
                          IF /\ pre.netclasses[i].name = last.p.name
                             /\ f \in DOMAIN last.p
                             /\ Given(last.p[f])
                          THEN Supplied(f)
                          ELSE pre.netclasses[i].rule[f]
          /\ Len(Doc.netclasses) =
                Len(pre.netclasses)
                    + (IF Named(pre.netclasses, last.p.name) = {} THEN 1 ELSE 0)

\* a class that held a clearance of its own is given a track width only
C14_Witness ==
    /\ Succeeded("create_netclass")
    /\ last.p.clearance = <<>> /\ last.p.trackWidth # <<>>
    /\ \E i \in Named(pre.netclasses, last.p.name) :
          /\ pre.netclasses[i].rule["clearance"] # NETCLASS("")["rule"]["clearance"]
          /\ pre.netclasses[i].rule["trackWidth"] # Supplied("trackWidth")
          /\ Doc.netclasses[i].rule["trackWidth"] = Supplied("trackWidth")
    /\ Len(pre.netclasses) = 2

\* C15: add_net is idempotent: after a successful call there is exactly one
\* net of that name, the call returns that net's code, and no command changes
\* the name or the code of a net there is, so that every call for a name
\* returns the code the first one returned.
C15_AddNetIdempotent ==
    /\ \A k \in 1..Len(pre.nets) :
          /\ k <= Len(Doc.nets)
          /\ Doc.nets[k].name = pre.nets[k].name
          /\ Doc.nets[k].code = pre.nets[k].code
    /\ Succeeded("add_net") =>
          /\ Cardinality(Named(Doc.nets, last.p.name)) = 1
          /\ \A k \in Named(Doc.nets, last.p.name) : data.netcode = Doc.nets[k].code
          /\ Named(pre.nets, last.p.name) # {} => Len(Doc.nets) = Len(pre.nets)

\* a net that is not the latest one is added once more
C15_Witness ==
    /\ Succeeded("add_net")
    /\ Len(pre.nets) = 2
    /\ pre.nets[1].name = last.p.name
    /\ data.netcode = 1
    /\ Len(Doc.nets) = 2


\* C30: the class add_net's success response names is the class the net
\* belongs to after the call.
C30_ResponseNamesTheClass ==
    Succeeded("add_net") =>
        \A k \in Named(Doc.nets, last.p.name) : data.class = Doc.nets[k].class

\* a class that is given and does not exist leaves the class of a net there
\* was as it is, and so does a call without a class
ClassKeptWithoutOne ==
    (Succeeded("add_net") /\ Named(pre.netclasses, last.p.class) = {}) =>
        \A k \in Named(pre.nets, last.p.name) : Doc.nets[k].class = pre.nets[k].class

\* the response names the class of the net when the class given exists
NamesAnExistingClass ==
    (Succeeded("add_net") /\ Named(pre.netclasses, last.p.class) # {}) =>
        \A k \in Named(Doc.nets, last.p.name) : data.class = Doc.nets[k].class


\* C28: a command that answers success false leaves the session as it was:
\* the components, tracks, nets and net classes of every board, and the board
\* reference of the router and of every engine.
C28_FailureChangesNothing ==
    [][(last'.kind = "command" /\ ~resp'.success)
        => UNCHANGED <<routerBoard, engineBoard, frameBoard, boards>>]_vars

\* the same of every failure but those of create_netclass
FailureChangesNothingElsewhere ==
    [][(last'.kind = "command" /\ ~resp'.success /\ last'.cmd # "create_netclass")
        => UNCHANGED <<routerBoard, engineBoard, frameBoard, boards>>]_vars


---------------------------------------------------------------------------
(* Routing: route_trace, add_via and route_differential_pair, each applied  *)
(* once to a board that holds a footprint, two nets and perhaps a track     *)

RouteDocs ==
    {[EmptyDoc EXCEPT !.footprints = <<Footprint("R1", 3, 0, "R_0603", "R_0603")>>,
                      !.nets = <<Net("DP", 1), Net("DN", 2)>>, !.tracks = t] :
        t \in {<<>>, <<Track(1, 0, 0, 10 * UnitsPerMm, 0)>>}}

\* point specifications: literal points in millimetres, by default in
\* millimetres and in inches, pads there are and are not, and a malformed one
PointSpecs ==
    {[x |-> 0, y |-> 0, unit |-> "mm"],
     [x |-> 10 * JsonDen, y |-> 0, unit |-> "mm"],
     [x |-> 3 * JsonDen, y |-> 4 * JsonDen],
     [x |-> 1, y |-> 0, unit |-> "inch"],
     [componentRef |-> "R1", pad |-> "2"],
     [componentRef |-> "R1", pad |-> "9"],
     [x |-> 1]}

RouteTrace ==
    \E p \in [start : Optional(PointSpecs), end : Optional(PointSpecs),
              layer : {"F.Cu", "X.Cu"}, width : Optional({1}),
              net : {"", "DP", "NC"}, via : BOOLEAN] :
        /\ last = StartLine
        /\ Handle("route_trace", p,
                  route_trace(engineBoard["routing"], DocOf(engineBoard["routing"]), p))

AddVia ==
    \E p \in [position : Optional(PointSpecs), size : Optional({0, 3}),
              net : {"", "DP"}, from_layer : {"F.Cu", "X.Cu"}] :
        /\ last = StartLine
        /\ Handle("add_via", p,
                  add_via(engineBoard["routing"], DocOf(engineBoard["routing"]), p))

RouteDifferentialPair ==
    \E p \in [startPos : Optional(PointSpecs), endPos : Optional(PointSpecs),
              netPos : {"", "DP", "NC"}, netNeg : {"", "DN", "NC"},
              layer : {"F.Cu", "B.Cu", "X.Cu"}, width : Optional({1}),
              gap : Optional({0, 1})] :
        /\ last = StartLine
        /\ Handle("route_differential_pair", p,
                  route_differential_pair(engineBoard["routing"],
                                          DocOf(engineBoard["routing"]), p))

NextRoute == RouteTrace \/ AddVia \/ RouteDifferentialPair

SpecRoute == InitWith(RouteDocs) /\ [][NextRoute]_vars


\* the items the command has appended to BOARD.Tracks()
NewItems == SubSeq(Doc.tracks, Len(pre.tracks) + 1, Len(Doc.tracks))
KeptItems == SubSeq(Doc.tracks, 1, Len(pre.tracks)) = pre.tracks
Degenerate(t) == t.sx = t.ex /\ t.sy = t.ey

\* the points a differential pair was asked to run between, and its gap
PairStart == get_point(pre, last.p.startPos[1])
PairEnd == get_point(pre, last.p.endPos[1])
PairGap ==
    IF Given(last.p.gap) THEN Trunc(last.p.gap[1] * UnitsPerMm, JsonDen)
    ELSE (2 * UnitsPerMm) \div 10

\* o is c / length * gap / 2 in whole internal units, the fraction dropped
HalfGapAlong(o, c, length2) ==
    /\ o * c >= 0
    /\ 4 * o * o * length2 <= c * c * PairGap * PairGap
    /\ 4 * (o * o + 2 * (IF o >= 0 THEN o ELSE -o) + 1) * length2
          > c * c * PairGap * PairGap

\* C12: a successful route_differential_pair appends exactly two tracks on
\* the requested layer, the first on netPos from start+o to end+o, the second
\* on netNeg from start-o to end-o, where o is the perpendicular (-d.y, d.x)
\* of the unit direction scaled to half the gap (0.2 mm when none is given),
\* in whole internal units; both have the displacement of the centreline,
\* mirror each other about it and carry the same width.  From (0,0) mm to
\* (10,0) mm with the gap of 0.2 mm the rails lie at y = +0.1 mm and
\* y = -0.1 mm and are 10 mm long.
C12_RailsOffsetByHalfGap ==
    Succeeded("route_differential_pair") =>
        LET pos == NewItems[1]
            neg == NewItems[2]
            dx == PairEnd.x - PairStart.x
            dy == PairEnd.y - PairStart.y
            ox == pos.sx - PairStart.x
            oy == pos.sy - PairStart.y
        IN /\ Len(NewItems) = 2 /\ KeptItems
           /\ pos.kind = "track" /\ neg.kind = "track"
           /\ pos.layer = last.p.layer /\ neg.layer = last.p.layer
           /\ pos.net = last.p.netPos /\ neg.net = last.p.netNeg
           /\ pos.ex = PairEnd.x + ox /\ pos.ey = PairEnd.y + oy
           /\ neg.sx = PairStart.x - ox /\ neg.sy = PairStart.y - oy
           /\ neg.ex = PairEnd.x - ox /\ neg.ey = PairEnd.y - oy
           /\ HalfGapAlong(ox, -dy, dx * dx + dy * dy)
           /\ HalfGapAlong(oy, dx, dx * dx + dy * dy)
           /\ pos.ex - pos.sx = dx /\ pos.ey - pos.sy = dy
           /\ neg.ex - neg.sx = dx /\ neg.ey - neg.sy = dy
           /\ pos.sx + neg.sx = 2 * PairStart.x /\ pos.sy + neg.sy = 2 * PairStart.y
           /\ pos.ex + neg.ex = 2 * PairEnd.x /\ pos.ey + neg.ey = 2 * PairEnd.y
           /\ pos.width = neg.width
           /\ (/\ last.p.startPos = <<[x |-> 0, y |-> 0, unit |-> "mm"]>>
               /\ last.p.endPos = <<[x |-> 10 * JsonDen, y |-> 0, unit |-> "mm"]>>
               /\ last.p.gap = <<>>)
                => /\ pos.sy = UnitsPerMm \div 10 /\ pos.ey = UnitsPerMm \div 10
                   /\ neg.sy = -(UnitsPerMm \div 10) /\ neg.ey = -(UnitsPerMm \div 10)
                   /\ pos.sx = 0 /\ pos.ex = 10 * UnitsPerMm
                   /\ neg.sx = 0 /\ neg.ex = 10 * UnitsPerMm

\* a pair along a diagonal, its offset cut to whole units on one axis, on a
\* board that held a track
C12_Witness ==
    /\ Succeeded("route_differential_pair")
    /\ Len(pre.tracks) = 1
    /\ PairEnd.x - PairStart.x # 0 /\ PairEnd.y - PairStart.y # 0
    /\ NewItems[1].sx # PairStart.x /\ NewItems[1].sy # PairStart.y
    /\ 4 * (NewItems[1].sy - PairStart.y) * (NewItems[1].sy - PairStart.y)
          * ((PairEnd.x - PairStart.x) * (PairEnd.x - PairStart.x)
             + (PairEnd.y - PairStart.y) * (PairEnd.y - PairStart.y))
         < (PairEnd.x - PairStart.x) * (PairEnd.x - PairStart.x) * PairGap * PairGap

\* a differential pair is requested with every parameter, on a loaded board
PairRequest ==
    /\ last.kind = "command" /\ last.cmd = "route_differential_pair"

PairIncomplete ==
    \/ last.p.startPos = <<>> \/ last.p.endPos = <<>>
    \/ last.p.netPos = "" \/ last.p.netNeg = ""

PairNetAbsent ==
    \E n \in {last.p.netPos, last.p.netNeg} : \A k \in 1..Len(pre.nets) : pre.nets[k].name # n

PairCoincides == PairStart # NoPoint /\ PairStart = PairEnd

\* C13 as stated: MissingParameter when a parameter is absent, NotFound when
\* a net does not exist, InvalidParameter when start and end coincide, and no
\* track added in any of these cases.
C13_AsStated ==
    PairRequest =>
        /\ PairIncomplete => resp = Fail("MissingParameter") /\ Doc = pre
        /\ ~PairIncomplete /\ PairNetAbsent => resp = Fail("NotFound") /\ Doc = pre
        /\ ~PairIncomplete /\ ~PairNetAbsent /\ PairCoincides
              => resp = Fail("InvalidParameter") /\ Doc = pre

\* C13: route_differential_pair fails MissingParameter when any of startPos,
\* endPos, netPos, netNeg is absent; otherwise InvalidParameter when the
\* board has no layer of the requested name; otherwise NotFound when either
\* net does not exist; otherwise InvalidParameter when the resolved start and
\* end coincide; and in each of these cases the board is left as it was.
C13_FailuresInOrder ==
    PairRequest =>
        /\ PairIncomplete => resp = Fail("MissingParameter") /\ Doc = pre
        /\ ~PairIncomplete /\ last.p.layer \notin LayerNames
              => resp = Fail("InvalidParameter") /\ Doc = pre
        /\ ~PairIncomplete /\ last.p.layer \in LayerNames /\ PairNetAbsent
              => resp = Fail("NotFound") /\ Doc = pre
        /\ ~PairIncomplete /\ last.p.layer \in LayerNames /\ ~PairNetAbsent /\ PairCoincides
              => resp = Fail("InvalidParameter") /\ Doc = pre

\* on a board that holds a track, one of two nets does not exist
C13_Witness ==
    /\ PairRequest /\ ~PairIncomplete
    /\ last.p.layer = "B.Cu"
    /\ last.p.netPos = "DP" /\ last.p.netNeg = "NC"
    /\ resp = Fail("NotFound")
    /\ Len(pre.tracks) = 1 /\ Doc = pre

\* the points a trace was asked to run between
TraceStart == get_point(pre, last.p.start[1])
TraceEnd == get_point(pre, last.p.end[1])

RoutingRequest(cmd) == last.kind = "command" /\ last.cmd = cmd

\* C17: the board holds no track inserted by route_trace or
\* route_differential_pair whose start equals its end: a request whose
\* resolved start and end coincide is rejected and leaves the board as it was.
C17_NoDegenerateTrack ==
    /\ \A k \in 1..Len(NewItems) :
          NewItems[k].kind = "track" => ~Degenerate(NewItems[k])
    /\ (/\ RoutingRequest("route_trace")
        /\ last.p.start # <<>> /\ last.p.end # <<>>
        /\ TraceStart # NoPoint /\ TraceStart = TraceEnd)
          => ~resp.success /\ Doc = pre
    /\ (/\ RoutingRequest("route_differential_pair")
        /\ last.p.startPos # <<>> /\ last.p.endPos # <<>>
        /\ PairCoincides)
          => ~resp.success /\ Doc = pre

\* C18: a successful route_trace appends exactly one track; when via is true
\* and a net is given it appends exactly one via besides, at the end point of
\* that track, and otherwise no via.
C18_OneTrackAndItsVia ==
    Succeeded("route_trace") =>
        LET tracks == {k \in 1..Len(NewItems) : NewItems[k].kind = "track"}
            vias == {k \in 1..Len(NewItems) : NewItems[k].kind = "via"}
        IN /\ KeptItems
           /\ Cardinality(tracks) = 1
           /\ IF last.p.via /\ last.p.net # ""
              THEN /\ Cardinality(vias) = 1
                   /\ \A t \in tracks, v \in vias :
                         NewItems[v].sx = NewItems[t].ex /\ NewItems[v].sy = NewItems[t].ey
              ELSE vias = {}


---------------------------------------------------------------------------
(* Units: each command that converts a length or a point, applied once to   *)
(* a parameter whose unit is mm, inch, or neither                           *)

ConvertLength ==
    \E unit \in {"mm", "inch", "cm", ""}, x \in 0..2, y \in 0..2 :
        LET point == [x |-> x, y |-> y, unit |-> unit]
            place == [componentId |-> "R_0603", position |-> <<point>>,
                      reference |-> "R2", value |-> "", footprint |-> ""]
            move == [reference |-> "R1", position |-> <<point>>]
            via == [position |-> <<point>>]
            delete == [traceUuid |-> <<>>, position |-> <<point>>]
            route == [start |-> <<Origin>>, end |-> <<point>>, layer |-> "F.Cu",
                      width |-> <<>>, net |-> "", via |-> FALSE]
            size == [width |-> <<x>>, height |-> <<y>>, unit |-> unit]
        IN /\ last = StartLine
           /\ \/ Handle("place_component", place,
                        place_component(ComponentBoard, DocOf(ComponentBoard), place))
              \/ Handle("move_component", move,
                        move_component(ComponentBoard, DocOf(ComponentBoard), move))
              \/ Handle("add_via", via,
                        add_via(engineBoard["routing"], DocOf(engineBoard["routing"]), via))
              \/ Handle("delete_trace", delete,
                        delete_trace(engineBoard["routing"], DocOf(engineBoard["routing"]),
                                     delete))
              \/ Handle("route_trace", route,
                        route_trace(engineBoard["routing"], DocOf(engineBoard["routing"]),
                                    route))
              \/ Handle("set_board_size", size,
                        set_board_size(engineBoard["board"], DocOf(engineBoard["board"]), size))

SpecUnits == InitWith(RouteDocs) /\ [][ConvertLength]_vars

\* the unit string of the length or the point the last command was given
UnitGiven ==
    IF last.cmd = "set_board_size" THEN last.p.unit
    ELSE IF last.cmd = "route_trace" THEN last.p.end[1].unit
    ELSE last.p.position[1].unit

\* C16: a length or a point whose unit string is neither mm nor inch is
\* rejected with InvalidParameter by place_component, move_component, add_via,
\* delete_trace, route_trace and set_board_size; it is never converted with
\* one of the two scale factors, so the board stays as it was.
C16_UnknownUnitRejected ==
    (/\ last.kind = "command"
     /\ last.cmd \in {"place_component", "move_component", "add_via",
                      "delete_trace", "route_trace", "set_board_size"}
     /\ UnitGiven \notin {"mm", "inch"})
        => resp = Fail("InvalidParameter") /\ Doc = pre


===========================================================================
